---- MODULE Spec2Model ----
(***************************************************************************)
(* A model of github.com/thegrumpylion/namespace: the Namespace handle     *)
(* (namespace.go), the memory store (store/mem/store.go) and the           *)
(* filesystem store (store/fs/store.go), together with the part of the     *)
(* kernel they talk to: processes and their namespaces, /proc/<pid>/ns,    *)
(* open files, bind mounts.                                                *)
(*                                                                         *)
(* Spec      every handler runs to completion (one caller, one thread).    *)
(* SpecConc  goroutines run memStore.Add/Get/Delete concurrently, one      *)
(*           shared-memory access or kernel call per step.                 *)
(*                                                                         *)
(* Kernel calls fail only for reasons the modelled state gives (a path     *)
(* that does not resolve, a file that is not a namespace, a closed         *)
(* descriptor, a mount-namespace loop); exhaustion of descriptors or       *)
(* memory is not modelled.                                                 *)
(***************************************************************************)
EXTENDS Integers, Sequences, FiniteSets, TLC

(***************************************************************************)
(* Bounds of the model.                                                    *)
(***************************************************************************)
NumKinds == 2       \* how many of the seven Types the callers use
NumNames == 2       \* how many distinct entry names the callers use
MaxPid == 1         \* pids 1..MaxPid
MaxNs == 2          \* clone and unshare calls that create namespaces during a run
MaxHeld == 2        \* Namespace objects handed to the callers during a run
MaxHandles == 4     \* Namespace objects allocated during a run

(***************************************************************************)
(* Types, names, paths.                                                    *)
(***************************************************************************)
\* typeNameMap, in the order of the const block.
TypeSeq == <<"MNT", "NET", "PID", "IPC", "UTS", "USER", "CGROUP">>

Types == {TypeSeq[i] : i \in 1..Len(TypeSeq)}

TypeIndex(t) == CHOOSE i \in 1..Len(TypeSeq) : TypeSeq[i] = t

\* Type.StringLower: strings.ToLower(t.String()).
StringLower(t) ==
  CASE t = "MNT" -> "mnt"
    [] t = "NET" -> "net"
    [] t = "PID" -> "pid"
    [] t = "IPC" -> "ipc"
    [] t = "UTS" -> "uts"
    [] t = "USER" -> "user"
    [] t = "CGROUP" -> "cgroup"
    [] OTHER -> ""

\* The values of the Types: the clone flags unix.CLONE_NEWNS, CLONE_NEWNET,
\* CLONE_NEWPID, CLONE_NEWIPC, CLONE_NEWUTS, CLONE_NEWUSER, CLONE_NEWCGROUP.
MNT == 131072

NET == 1073741824

PID == 536870912

IPC == 134217728

UTS == 67108864

USER == 268435456

CGROUP == 33554432

\* int(t), the flag a Type stands for.
TypeValue(t) ==
  CASE t = "MNT" -> MNT
    [] t = "NET" -> NET
    [] t = "PID" -> PID
    [] t = "IPC" -> IPC
    [] t = "UTS" -> UTS
    [] t = "USER" -> USER
    [] t = "CGROUP" -> CGROUP
    [] OTHER -> 0

\* The Types the callers of the model use.
Kinds == {TypeSeq[i] : i \in 1..NumKinds}

\* Entry names; sort.Strings orders them as listed here.
NameSeq == <<"a", "b", "c", "d">>

Names == {NameSeq[i] : i \in 1..NumNames}

NameIndex(n) == CHOOSE i \in 1..Len(NameSeq) : NameSeq[i] = n

Pids == 1..MaxPid

PROCFSPath == "/proc"

\* The root directory of the fs store (filepath.Clean(root)).
Root == "/store"

\* filepath.Join of path elements: a path is the sequence of its elements.
Join2(a, b) == <<a, b>>

Join3(a, b, c) == <<a, b, c>>

Join4(a, b, c, d) == <<a, b, c, d>>

(***************************************************************************)
(* Mask (mask.go): Types ORed into one int. The operators work bit by bit, *)
(* as &, | and ^ do.                                                       *)
(***************************************************************************)
RECURSIVE BitAnd(_, _)
\* a & b
BitAnd(a, b) ==
  IF a = 0 \/ b = 0 THEN 0
  ELSE (a % 2) * (b % 2) + 2 * BitAnd(a \div 2, b \div 2)

RECURSIVE BitOr(_, _)
\* a | b
BitOr(a, b) ==
  IF a = 0 THEN b
  ELSE IF b = 0 THEN a
  ELSE (IF a % 2 = 1 \/ b % 2 = 1 THEN 1 ELSE 0) + 2 * BitOr(a \div 2, b \div 2)

RECURSIVE BitAndNot(_, _)
\* a & ^b
BitAndNot(a, b) ==
  IF a = 0 THEN 0
  ELSE (a % 2) * (1 - (b % 2)) + 2 * BitAndNot(a \div 2, b \div 2)

\* NewMask().
NewMask == 0

\* A faulty Has: true only of the mask that is the type alone.
Has_Equal(m, t) == m = TypeValue(t)

\* m.Has(t).
Has(m, t) == BitAnd(m, TypeValue(t)) # 0

\* m.Uintptr().
Uintptr(m) == m

\* A faulty Set: the mask of t alone, whatever m had.
Set_Overwrite(m, t) == TypeValue(t)

\* m.Set(t).
Set(m, t) == BitOr(m, TypeValue(t))

\* m.Remove(t).
Remove(m, t) == BitAndNot(m, TypeValue(t))

\* m.SetAll(): Mask(MNT | NET | PID | IPC | UTS | USER | CGROUP), whatever m is.
SetAll ==
  BitOr(MNT, BitOr(NET, BitOr(PID, BitOr(IPC, BitOr(UTS, BitOr(USER, CGROUP))))))

(***************************************************************************)
(* Kernel objects.  A namespace is identified by its inode number on       *)
(* nsfs.  The caller's own (initial) namespace of type t has inode         *)
(* TypeIndex(t); the namespace of type t that the n-th clone or unshare     *)
(* creates has inode 8*n + TypeIndex(t), so that the type of a namespace   *)
(* can be read off its inode, as ioctl(NS_GET_NSTYPE) reads it off the     *)
(* object.                                                                 *)
(***************************************************************************)
InitIno(t) == TypeIndex(t)

NewIno(n, t) == 8 * n + TypeIndex(t)

NsTypeOfIno(ino) == TypeSeq[ino % 8]

NoEnt == [t |-> "noent"]

RegularFile == [t |-> "file"]

Directory == [t |-> "dir"]

NsFile(ino) == [t |-> "nsfs", ino |-> ino]

VARIABLES
  proc,      \* kernel: pid -> [alive, ns: Type -> inode of its namespace]
  nsCount,   \* kernel: clone/unshare calls so far that created namespaces
  self,      \* kernel: Type -> inode of the namespace the caller is in
  fsDirs,    \* filesystem: the directories under Root (set of paths)
  fsFiles,   \* filesystem: path -> RegularFile or NsFile (a bind mount)
  heap,      \* the Namespace objects allocated so far (sequence; pointer = index)
  held,      \* pointers the callers hold (returned by Open, Dup, Get)
  got,       \* history: the pointers Get returned
  dups,      \* history: <<h, d>> when a caller's h.Dup() returned d
  backend,   \* which store.Store the callers use: "mem" or "fs"
  flat,      \* fsStore.flat
  data,      \* memStore.data: Type -> (name -> pointer)
  reg,       \* history: (Type, name) -> what add registered there
  halted,    \* a goroutine panicked: the program is gone
  thr,       \* SpecConc: each goroutine's call in progress
  ret,       \* SpecNs, SpecMask: the last call and what it returned
  mask       \* SpecMask: the Mask a caller is building

vars == <<proc, nsCount, self, fsDirs, fsFiles, heap, held, got, dups, backend, flat,
          data, reg, halted, thr, ret, mask>>


(***************************************************************************)
(* The kernel: path resolution, open files, mounts.                        *)
(***************************************************************************)
\* strconv.Itoa on the pids of the model.
Itoa(pid) ==
  CASE pid = 1 -> "1"
    [] pid = 2 -> "2"
    [] pid = 3 -> "3"
    [] OTHER -> "?"

TypeOfLower(s) == CHOOSE t \in Types : StringLower(t) = s

\* What a path names now: NoEnt, Directory, RegularFile or NsFile(ino).
\* /proc/self/ns/<t> names the namespace the caller is in, /proc/<pid>/ns/<t> the
\* namespace the process has now (nothing once the process is gone), a path
\* under Root what the filesystem holds there (a bind mount hides the file
\* it is mounted on).
Resolve(path) ==
  IF Len(path) = 4 /\ path[1] = PROCFSPath /\ path[3] = "ns"
       /\ \E t \in Types : StringLower(t) = path[4]
  THEN IF path[2] = "self"
       THEN NsFile(self[TypeOfLower(path[4])])
       ELSE IF \E pid \in Pids : Itoa(pid) = path[2] /\ proc[pid].alive
            THEN LET pid == CHOOSE q \in Pids : Itoa(q) = path[2]
                 IN  NsFile(proc[pid].ns[TypeOfLower(path[4])])
            ELSE NoEnt
  ELSE IF path \in DOMAIN fsFiles THEN fsFiles[path]
  ELSE IF path \in fsDirs THEN Directory
  ELSE NoEnt

\* os.Stat(path): nil or the error.
OsStat(path) == IF Resolve(path) = NoEnt THEN "ENOENT" ELSE "nil"

\* f.Stat() on an open namespace file: device and inode of the object.
stat(ino) == [Dev |-> "nsfs", Ino |-> ino]

RECURSIVE Mounts(_)
\* The namespaces mounted at a node: the one on top and those it is stacked on.
Mounts(node) ==
  IF node.t # "nsfs" THEN {}
  ELSE {node.ino} \cup (IF "under" \in DOMAIN node THEN Mounts(node.under) ELSE {})

\* A namespace stays alive while a process is in it, an open file refers to
\* it or a bind mount refers to it.
NsAlive(ino) ==
  \/ \E t \in Types : ino = InitIno(t)
  \/ \E t \in Types : ino = self[t]
  \/ \E pid \in Pids : proc[pid].alive /\ \E t \in Types : proc[pid].ns[t] = ino
  \/ \E h \in 1..Len(heap) : heap[h].file.open /\ heap[h].file.ino = ino
  \/ \E p \in DOMAIN fsFiles : ino \in Mounts(fsFiles[p])

\* The n of the clone or unshare that created the namespace (0: initial).
NsSeq(ino) == ino \div 8

\* mount(src, trgt, MS_BIND): the error, or "nil". The kernel refuses to bind
\* a mount namespace that is not newer than the one the caller is in
\* (mnt_ns_loop).
MountBindErr(src) ==
  LET node == Resolve(src)
  IN  IF node = NoEnt THEN "ENOENT"
      ELSE IF node = Directory THEN "ENOTDIR"
      ELSE IF /\ node.t = "nsfs"
              /\ NsTypeOfIno(node.ino) = "MNT"
              /\ NsSeq(node.ino) <= NsSeq(self["MNT"])
           THEN "EINVAL"
      ELSE "nil"

\* umount(trgt, 0): EINVAL when nothing is mounted there, EBUSY while a file
\* opened through the mount is still open.
UnmountErr(trgt) ==
  IF trgt \notin DOMAIN fsFiles \/ fsFiles[trgt].t # "nsfs" THEN "EINVAL"
  ELSE IF \E h \in 1..Len(heap) : heap[h].file.open /\ heap[h].file.name = trgt
       THEN "EBUSY"
  ELSE "nil"

(***************************************************************************)
(* namespace.Namespace: {typ, file, stat, closed}.                         *)
(***************************************************************************)
NoNs == [typ |-> "", file |-> [open |-> FALSE, ino |-> 0, name |-> <<>>],
         stat |-> stat(0), closed |-> TRUE]

\* What the kernel may answer to the calls of Open beyond what the path
\* names: "nil", or the errno with which it refuses the call (EACCES: a
\* security module denies the open, the ioctl or the stat).
NoFault == [open |-> "nil", ioctl |-> "nil", stat |-> "nil"]

Faults == {NoFault, [NoFault EXCEPT !.open = "EACCES"],
           [NoFault EXCEPT !.ioctl = "EACCES"], [NoFault EXCEPT !.stat = "EACCES"]}

\* ioctlGetType(fd) on the open file of node, the kernel answering e:
\* ioctl(NS_GET_NSTYPE) fails with ENOTTY on a file that is no namespace.
ioctlGetType(node, e) ==
  LET errno == IF e # "nil" THEN e
               ELSE IF node.t # "nsfs" THEN "ENOTTY"
               ELSE "nil"
  IN  IF errno = "ENOTTY" THEN [err |-> "ErrFileNotNamspace", typ |-> ""]
      ELSE IF errno # "nil" THEN [err |-> errno, typ |-> ""]
      ELSE [err |-> "nil", typ |-> NsTypeOfIno(node.ino)]

\* Open(path), the kernel answering k: os.Open, ioctlGetType, stat. q: the
\* file was opened; when Open fails after that it returns without closing it.
OpenWith(path, k) ==
  LET node == Resolve(path)
      openErr == IF k.open # "nil" THEN k.open
                 ELSE IF node = NoEnt THEN "ENOENT"
                 ELSE "nil"
      t == ioctlGetType(node, k.ioctl)
  IN  IF openErr # "nil" THEN [err |-> openErr, ns |-> NoNs, q |-> FALSE]
      ELSE IF t.err # "nil"
           THEN [err |-> "ErrFileNotNamspace", ns |-> NoNs, q |-> TRUE]
      ELSE IF k.stat # "nil" THEN [err |-> k.stat, ns |-> NoNs, q |-> TRUE]
      ELSE [err |-> "nil",
            ns |-> [typ |-> t.typ,
                    file |-> [open |-> TRUE, ino |-> node.ino, name |-> path],
                    stat |-> stat(node.ino),
                    closed |-> FALSE],
            q |-> TRUE]

\* Open(path) when the kernel refuses nothing.
Open(path) == [f \in {"err", "ns"} |-> OpenWith(path, NoFault)[f]]

\* A faulty Dup: the new Namespace is built without the stat of the new file.
DupFile_NoStat(ns) ==
  IF ~ns.file.open THEN [err |-> "EBADF", ns |-> NoNs]
  ELSE [err |-> "nil",
        ns |-> [typ |-> ns.typ,
                file |-> [open |-> TRUE, ino |-> ns.file.ino, name |-> ns.file.name],
                stat |-> stat(0),
                closed |-> FALSE]]

\* A faulty Dup: opens the file name again, not a copy of the descriptor.
DupFile_Reopen(ns) ==
  IF ~ns.file.open THEN [err |-> "EBADF", ns |-> NoNs]
  ELSE Open(ns.file.name)

\* unix.Dup(int(ns.file.Fd())), os.NewFile(fd, ns.file.Name()), stat(f): the
\* new Namespace refers to the same object and carries the same file name.
DupFile(ns) ==
  IF ~ns.file.open THEN [err |-> "EBADF", ns |-> NoNs]
  ELSE [err |-> "nil",
        ns |-> [typ |-> ns.typ,
                file |-> [open |-> TRUE, ino |-> ns.file.ino, name |-> ns.file.name],
                stat |-> stat(ns.file.ino),
                closed |-> FALSE]]

\* ns.Dup(): panics on a closed Namespace.
Dup(ns) ==
  IF ns.closed THEN [err |-> "panic", ns |-> NoNs] ELSE DupFile(ns)

\* ns.file.Close() after ns.closed = true. Every accessor of a closed
\* Namespace but Type() panics before it reads file or stat, so what they
\* held is dropped.
CloseFile(ns) == [NoNs EXCEPT !.typ = ns.typ]

\* ns.Close(): panics on a closed Namespace.
Close(ns) ==
  IF ns.closed THEN [err |-> "panic", ns |-> ns]
  ELSE [err |-> "nil", ns |-> CloseFile(ns)]

\* ns.FileName().
FileName(ns) == ns.file.name

(***************************************************************************)
(* The other methods of Namespace. Each is the result of the call on ns:   *)
(*   err  "nil", the error returned, or "panic"                            *)
(*   ns   the Namespace returned (NoNs: none), or the receiver after the   *)
(*        call for SetAndClose                                             *)
(*   val  the value returned                                               *)
(*   q    the kernel was asked (an ioctl or setns was issued)              *)
(* k is what the kernel answers to the ioctl or to setns: "ok" (it carries *)
(* the request out, or refuses it for what the namespace is) or the errno  *)
(* it fails with for another reason (ENOTTY: the kernel does not know the  *)
(* request; EMFILE: no descriptor is free).                                *)
(***************************************************************************)
\* panic("acting on a closed namespace").
ClosedPanic == [err |-> "panic", ns |-> NoNs, val |-> 0, q |-> FALSE]

Answers == {"ok", "ENOTTY", "EMFILE"}

\* The user namespace that owns a namespace (0: the initial user namespace
\* has none the caller may see). Every process of the model is cloned by
\* the caller with CLONE_NEWUSER, so the namespaces of the n-th clone belong
\* to its user namespace and that one to the initial user namespace.
OwnerOf(ino) ==
  IF NsTypeOfIno(ino) = "USER"
  THEN IF NsSeq(ino) = 0 THEN 0 ELSE InitIno("USER")
  ELSE IF NsSeq(ino) = 0 THEN InitIno("USER") ELSE NewIno(NsSeq(ino), "USER")

\* The parent of a pid or user namespace (0: an initial namespace has none
\* the caller may see).
ParentOf(ino) == IF NsSeq(ino) = 0 THEN 0 ELSE InitIno(NsTypeOfIno(ino))

\* The uid that created a user namespace: root the initial one, the caller
\* (uid 1000) the others.
CreatorOf(ino) == IF NsSeq(ino) = 0 THEN 0 ELSE 1000

\* ioctl(fd, call) of the kernel on the namespace ino: the errno, and the
\* namespace of the new descriptor or the value.
Ioctl(ino, call, k) ==
  IF k # "ok" THEN [errno |-> k, out |-> 0]
  ELSE IF call = "NS_GET_USERNS"
       THEN IF OwnerOf(ino) = 0 THEN [errno |-> "EPERM", out |-> 0]
            ELSE [errno |-> "nil", out |-> OwnerOf(ino)]
  ELSE IF call = "NS_GET_PARENT"
       THEN IF NsTypeOfIno(ino) \notin {"PID", "USER"}
            THEN [errno |-> "EINVAL", out |-> 0]
            ELSE IF ParentOf(ino) = 0 THEN [errno |-> "EPERM", out |-> 0]
            ELSE [errno |-> "nil", out |-> ParentOf(ino)]
  ELSE IF NsTypeOfIno(ino) # "USER" THEN [errno |-> "EINVAL", out |-> 0]
  ELSE [errno |-> "nil", out |-> CreatorOf(ino)]

NoFile == [open |-> FALSE, ino |-> 0, name |-> <<>>]

\* A faulty ioctlGetHierarchichal: EPERM is not told apart.
ioctlGetHierarchichal_Raw(ino, call, k) ==
  LET r == Ioctl(ino, call, k)
  IN  IF r.errno = "ENOTTY" THEN [err |-> "ErrKernelNoSupport", file |-> NoFile]
      ELSE IF r.errno # "nil" THEN [err |-> r.errno, file |-> NoFile]
      ELSE [err |-> "nil",
            file |-> [open |-> TRUE, ino |-> r.out, name |-> <<>>]]

\* ioctlGetHierarchichal(fd, call): the new file is os.NewFile(fdOut, "").
ioctlGetHierarchichal(ino, call, k) ==
  LET r == Ioctl(ino, call, k)
  IN  IF r.errno = "ENOTTY" THEN [err |-> "ErrKernelNoSupport", file |-> NoFile]
      ELSE IF r.errno = "EPERM" THEN [err |-> "ErrNotPermitted", file |-> NoFile]
      ELSE IF r.errno # "nil" THEN [err |-> r.errno, file |-> NoFile]
      ELSE [err |-> "nil",
            file |-> [open |-> TRUE, ino |-> r.out, name |-> <<>>]]

\* ns.Type(): returns ns.typ, closed or not.
Type(ns) == [err |-> "nil", ns |-> NoNs, val |-> ns.typ, q |-> FALSE]

\* ns.Fd(): the descriptor of ns.file.
Fd(ns) ==
  IF ns.closed THEN ClosedPanic
  ELSE [err |-> "nil", ns |-> NoNs, val |-> ns.file, q |-> FALSE]

\* ns.Ino().
Ino(ns) ==
  IF ns.closed THEN ClosedPanic
  ELSE [err |-> "nil", ns |-> NoNs, val |-> ns.stat.Ino, q |-> FALSE]

\* ns.Dev().
Dev(ns) ==
  IF ns.closed THEN ClosedPanic
  ELSE [err |-> "nil", ns |-> NoNs, val |-> ns.stat.Dev, q |-> FALSE]

\* ns.FileName(), with its check of ns.closed.
GetFileName(ns) ==
  IF ns.closed THEN ClosedPanic
  ELSE [err |-> "nil", ns |-> NoNs, val |-> FileName(ns), q |-> FALSE]

\* ns.Set(): unix.Setns(ns.Fd(), int(ns.typ)); k is what setns returns.
NamespaceSet(ns, k) ==
  IF ns.closed THEN ClosedPanic
  ELSE [err |-> k, ns |-> NoNs, val |-> 0, q |-> TRUE]

\* A faulty SetAndClose: closes the Namespace whatever setns returned.
SetAndClose_AlwaysClose(ns, k) ==
  IF Fd(ns).err = "panic" THEN ClosedPanic
  ELSE IF k # "nil" THEN [err |-> k, ns |-> Close(ns).ns, val |-> 0, q |-> TRUE]
  ELSE [err |-> Close(ns).err, ns |-> Close(ns).ns, val |-> 0, q |-> TRUE]

\* ns.SetAndClose(): ns.Fd() panics on a closed Namespace; ns.Close() only
\* when setns returned nil.
SetAndClose(ns, k) ==
  IF Fd(ns).err = "panic" THEN ClosedPanic
  ELSE IF k # "nil" THEN [err |-> k, ns |-> ns, val |-> 0, q |-> TRUE]
  ELSE [err |-> Close(ns).err, ns |-> Close(ns).ns, val |-> 0, q |-> TRUE]

\* ns.OwningUserNS(): no check of ns.typ.
OwningUserNS(ns, k) ==
  IF ns.closed THEN ClosedPanic
  ELSE LET r == ioctlGetHierarchichal(ns.file.ino, "NS_GET_USERNS", k)
       IN  IF r.err # "nil"
           THEN [err |-> r.err, ns |-> NoNs, val |-> 0, q |-> TRUE]
           ELSE [err |-> "nil",
                 ns |-> [typ |-> "USER", file |-> r.file,
                         stat |-> stat(r.file.ino), closed |-> FALSE],
                 val |-> 0, q |-> TRUE]

\* A faulty Parent: asks the kernel whatever ns.typ is.
Parent_NoCheck(ns, k) ==
  IF ns.closed THEN ClosedPanic
  ELSE LET r == ioctlGetHierarchichal(ns.file.ino, "NS_GET_PARENT", k)
       IN  IF r.err # "nil"
           THEN [err |-> r.err, ns |-> NoNs, val |-> 0, q |-> TRUE]
           ELSE [err |-> "nil",
                 ns |-> [typ |-> ns.typ, file |-> r.file,
                         stat |-> stat(r.file.ino), closed |-> FALSE],
                 val |-> 0, q |-> TRUE]

\* ns.Parent(): ErrNonHierarchicalNS before the ioctl unless ns.typ is PID
\* or USER.
Parent(ns, k) ==
  IF ns.closed THEN ClosedPanic
  ELSE IF ~(ns.typ = "PID" \/ ns.typ = "USER")
       THEN [err |-> "ErrNonHierarchicalNS", ns |-> NoNs, val |-> 0, q |-> FALSE]
  ELSE LET r == ioctlGetHierarchichal(ns.file.ino, "NS_GET_PARENT", k)
       IN  IF r.err # "nil"
           THEN [err |-> r.err, ns |-> NoNs, val |-> 0, q |-> TRUE]
           ELSE [err |-> "nil",
                 ns |-> [typ |-> ns.typ, file |-> r.file,
                         stat |-> stat(r.file.ino), closed |-> FALSE],
                 val |-> 0, q |-> TRUE]

\* A faulty OwnerUID: asks the kernel whatever ns.typ is.
OwnerUID_NoCheck(ns, k) ==
  IF ns.closed THEN ClosedPanic
  ELSE LET r == Ioctl(ns.file.ino, "NS_GET_OWNER_UID", k)
       IN  [err |-> r.errno, ns |-> NoNs, val |-> r.out, q |-> TRUE]

\* ns.OwnerUID(): ErrNonUserNS unless ns.typ is USER, then
\* unix.IoctlGetInt(fd, NS_GET_OWNER_UID), its error as it is.
OwnerUID(ns, k) ==
  IF ns.closed THEN ClosedPanic
  ELSE IF ns.typ # "USER"
       THEN [err |-> "ErrNonUserNS", ns |-> NoNs, val |-> 0, q |-> FALSE]
  ELSE LET r == Ioctl(ns.file.ino, "NS_GET_OWNER_UID", k)
       IN  [err |-> r.errno, ns |-> NoNs, val |-> r.out, q |-> TRUE]


(***************************************************************************)
(* History: what the callers registered. add(h, name) that returns nil     *)
(* registers (h.Type(), name) with the pointer h and the identity h        *)
(* captured when it was opened; delete(typ, name) that returns nil         *)
(* unregisters (typ, name).                                                *)
(***************************************************************************)
Identity(ns) == [typ |-> ns.typ, stat |-> ns.stat]

Registered(typ, name, h) ==
  (<<typ, name>> :> [id |-> Identity(heap[h]), h |-> h]) @@ reg

Unregistered(typ, name) ==
  [k \in DOMAIN reg \ {<<typ, name>>} |-> reg[k]]

\* The last call on a Namespace: op on the pointer h (0: Open, val is the
\* path), the kernel answering k (f for Open), returned r and the new
\* pointer out (0: none).
Called(op, h, k, f, r, out) ==
  [op |-> op, h |-> h, k |-> k, f |-> f, err |-> r.err, out |-> out,
   val |-> r.val, q |-> r.q]

\* A panic ("acting on a closed namespace") ends the program.
Panics ==
  /\ halted' = TRUE
  /\ UNCHANGED <<proc, nsCount, fsDirs, fsFiles, heap, held, got, dups, data,
                 reg>>

(***************************************************************************)
(* Processes (the tests' newProcess and Process.Kill; a process may also   *)
(* move itself to a new namespace with unshare).                           *)
(***************************************************************************)
NoProc == [alive |-> FALSE, ns |-> [t \in Types |-> InitIno(t)]]

\* newProcess(m): clone with Cloneflags m; a fresh namespace for every type
\* of the mask, the caller's namespace for the others.
newProcess(pid, m) ==
  /\ ~halted
  /\ ~proc[pid].alive
  /\ nsCount < MaxNs
  /\ proc' = [proc EXCEPT ![pid] =
                [alive |-> TRUE,
                 ns |-> [t \in Types |->
                           IF Has(m, t) THEN NewIno(nsCount + 1, t)
                           ELSE InitIno(t)]]]
  /\ nsCount' = nsCount + 1
  /\ UNCHANGED <<fsDirs, fsFiles, heap, held, got, dups, backend, flat, ret,
                 mask, self, data, reg, halted, thr>>

\* c.Process.Kill() and c.Wait().
Kill(pid) ==
  /\ ~halted
  /\ proc[pid].alive
  /\ proc' = [proc EXCEPT ![pid] = NoProc]
  /\ UNCHANGED <<nsCount, fsDirs, fsFiles, heap, held, got, dups, backend,
                 flat, ret, mask, self, data, reg, halted, thr>>

\* The process calls unshare(t).
Unshare(pid, t) ==
  /\ ~halted
  /\ proc[pid].alive
  /\ nsCount < MaxNs
  /\ proc' = [proc EXCEPT ![pid].ns[t] = NewIno(nsCount + 1, t)]
  /\ nsCount' = nsCount + 1
  /\ UNCHANGED <<fsDirs, fsFiles, heap, held, got, dups, backend, flat, ret,
                 mask, self, data, reg, halted, thr>>

(***************************************************************************)
(* The callers' use of Namespace.                                          *)
(***************************************************************************)
\* The caller gets the Namespace a constructor returned.
Returns(r) ==
  IF r.err = "nil"
  THEN /\ heap' = Append(heap, r.ns)
       /\ held' = held \cup {Len(heap) + 1}
  ELSE UNCHANGED <<heap, held>>

\* The model has room for one more Namespace in the callers' hands.
Room == Cardinality(held) < MaxHeld /\ Len(heap) < MaxHandles

\* OpenPID(pid, t).
OpenPID(pid, t) ==
  /\ ~halted
  /\ Room
  /\ Returns(Open(Join4(PROCFSPath, Itoa(pid), "ns", StringLower(t))))
  /\ UNCHANGED <<proc, nsCount, fsDirs, fsFiles, got, dups, backend, flat, ret,
                 mask, self, data, reg, halted, thr>>

\* OpenSelf(t).
OpenSelf(t) ==
  /\ ~halted
  /\ Room
  /\ Returns(Open(Join4(PROCFSPath, "self", "ns", StringLower(t))))
  /\ UNCHANGED <<proc, nsCount, fsDirs, fsFiles, got, dups, backend, flat, ret,
                 mask, self, data, reg, halted, thr>>

\* h.Dup() by a caller.
CallDup(h) ==
  /\ ~halted
  /\ Room
  /\ LET r == Dup(heap[h])
     IN  IF r.err = "panic"
         THEN Panics
         ELSE /\ Returns(r)
              /\ dups' = IF r.err = "nil" THEN dups \cup {<<h, Len(heap) + 1>>}
                         ELSE dups
              /\ UNCHANGED <<proc, nsCount, fsDirs, fsFiles, got, data, reg,
                             halted>>
  /\ UNCHANGED <<backend, flat, ret, mask, self, thr>>

\* h.Close() by a caller.
CallClose(h) ==
  /\ ~halted
  /\ LET r == Close(heap[h])
     IN  IF r.err = "panic"
         THEN Panics
         ELSE /\ heap' = [heap EXCEPT ![h] = r.ns]
              /\ UNCHANGED <<proc, nsCount, fsDirs, fsFiles, held, got, dups,
                             data, reg, halted>>
  /\ UNCHANGED <<backend, flat, ret, mask, self, thr>>

\* setns(fd, nstype) of the kernel on the namespace ino, for a caller that
\* is a Go program: its threads share their filesystem state and their
\* user namespace, so the kernel refuses a mount or user namespace (EINVAL).
Setns(ino, k) ==
  IF k # "ok" THEN k
  ELSE IF NsTypeOfIno(ino) \in {"MNT", "USER"} THEN "EINVAL"
  ELSE "nil"

\* The namespaces the caller is in after setns returned e: a pid namespace
\* is entered by the children of the caller only.
Entered(ns, e) ==
  IF e = "nil" /\ ns.typ # "PID" THEN [self EXCEPT ![ns.typ] = ns.file.ino]
  ELSE self

\* The paths the callers open in SpecNs: the namespaces of the caller and
\* of the processes, the root of the store (a directory), a missing file.
NsPaths ==
  {Join4(PROCFSPath, who, "ns", StringLower(t)) :
     who \in {"self"} \cup {Itoa(pid) : pid \in Pids}, t \in Types}
  \cup {<<Root>>, Join2(Root, NameSeq[1])}

\* Open(path) by a caller, the kernel answering f.
CallOpen(path, f) ==
  /\ ~halted
  /\ Room
  /\ LET r == OpenWith(path, f)
     IN  /\ Returns(r)
         /\ ret' = Called("Open", 0, "", f, [r EXCEPT !.ns = NoNs] @@ [val |-> path],
                          IF r.err = "nil" THEN Len(heap) + 1 ELSE 0)
  /\ UNCHANGED <<proc, nsCount, self, fsDirs, fsFiles, got, dups, backend,
                 flat, data, reg, halted, thr, mask>>

\* A call on h that returns r and changes nothing, unless it panics.
Reads(op, h, k, r) ==
  /\ ~halted
  /\ ret' = Called(op, h, k, NoFault, r, 0)
  /\ IF r.err = "panic"
     THEN Panics
     ELSE UNCHANGED <<proc, nsCount, fsDirs, fsFiles, heap, held, got, dups,
                      data, reg, halted>>
  /\ UNCHANGED <<backend, flat, mask, self, thr>>

\* h.Type() by a caller.
CallType(h) == Reads("Type", h, "", Type(heap[h]))

\* h.Fd() by a caller.
CallFd(h) == Reads("Fd", h, "", Fd(heap[h]))

\* h.Ino() by a caller.
CallIno(h) == Reads("Ino", h, "", Ino(heap[h]))

\* h.Dev() by a caller.
CallDev(h) == Reads("Dev", h, "", Dev(heap[h]))

\* h.FileName() by a caller.
CallFileName(h) == Reads("FileName", h, "", GetFileName(heap[h]))

\* h.OwnerUID() by a caller, the kernel answering k.
CallOwnerUID(h, k) == Reads("OwnerUID", h, k, OwnerUID(heap[h], k))

\* h.Set() by a caller, the kernel answering k.
CallSet(h, k) ==
  /\ ~halted
  /\ LET ns == heap[h]
         r == IF ns.closed THEN ClosedPanic
              ELSE NamespaceSet(ns, Setns(ns.file.ino, k))
     IN  /\ ret' = Called("Set", h, k, NoFault, r, 0)
         /\ IF r.err = "panic"
            THEN Panics /\ UNCHANGED self
            ELSE /\ self' = Entered(ns, r.err)
                 /\ UNCHANGED <<proc, nsCount, fsDirs, fsFiles, heap, held, got,
                                dups, data, reg, halted>>
  /\ UNCHANGED <<backend, flat, mask, thr>>

\* h.SetAndClose() by a caller, the kernel answering k.
CallSetAndClose(h, k) ==
  /\ ~halted
  /\ LET ns == heap[h]
         e == IF ns.closed THEN "" ELSE Setns(ns.file.ino, k)
         r == SetAndClose(ns, e)
     IN  /\ ret' = Called("SetAndClose", h, k, NoFault, [r EXCEPT !.ns = NoNs], 0)
         /\ IF r.err = "panic"
            THEN Panics /\ UNCHANGED self
            ELSE /\ self' = Entered(ns, e)
                 /\ heap' = [heap EXCEPT ![h] = r.ns]
                 /\ UNCHANGED <<proc, nsCount, fsDirs, fsFiles, held, got, dups,
                                data, reg, halted>>
  /\ UNCHANGED <<backend, flat, mask, thr>>

\* A call on h that returns r with a new Namespace, unless it fails.
Derives(op, h, k, r) ==
  /\ ~halted
  /\ Room \/ r.err # "nil"
  /\ ret' = Called(op, h, k, NoFault, r,
                   IF r.err = "nil" THEN Len(heap) + 1 ELSE 0)
  /\ IF r.err = "panic"
     THEN Panics
     ELSE /\ Returns(r)
          /\ UNCHANGED <<proc, nsCount, fsDirs, fsFiles, got, dups, data, reg,
                         halted>>
  /\ UNCHANGED <<backend, flat, mask, self, thr>>

\* h.Parent() by a caller, the kernel answering k.
CallParent(h, k) == Derives("Parent", h, k, Parent(heap[h], k))

\* h.OwningUserNS() by a caller, the kernel answering k.
CallOwningUserNS(h, k) == Derives("OwningUserNS", h, k, OwningUserNS(heap[h], k))

(***************************************************************************)
(* store/mem: memStore.                                                    *)
(***************************************************************************)
NoEntries == [n \in {} |-> 0]

\* NewMemStore(): an empty map for every type.
NewMemStore == [t \in Types |-> NoEntries]

\* sort.Strings of a set of names.
SortStrings(S) ==
  CHOOSE s \in [1..Cardinality(S) -> S] :
    /\ \A i, j \in 1..Cardinality(S) : i < j => NameIndex(s[i]) < NameIndex(s[j])
    /\ \A n \in S : \E i \in 1..Cardinality(S) : s[i] = n

\* What memStore.Add(ns, name) returns. The sync.RWMutex the store embeds
\* is never taken.
memStoreAddErr(h, name) ==
  LET ns == heap[h]
      newNs == Dup(ns)
  IN  IF newNs.err # "nil" THEN newNs.err
      ELSE IF name \in DOMAIN data[ns.typ] THEN "ErrExists"
      ELSE "nil"

\* A faulty Add: the store keeps the caller's Namespace, not a Dup of it.
memStoreAdd_NoDup(h, name) ==
  LET ns == heap[h]
      err == IF ns.closed THEN "panic" ELSE memStoreAddErr(h, name)
  IN  IF err = "panic" THEN Panics
      ELSE /\ data' = IF err = "nil"
                      THEN [data EXCEPT ![ns.typ] = (name :> h) @@ @]
                      ELSE data
           /\ reg' = IF err = "nil" THEN Registered(ns.typ, name, h) ELSE reg
           /\ UNCHANGED <<proc, nsCount, fsDirs, fsFiles, heap, held, got,
                          dups, halted>>

\* memStore.Add(ns, name).
memStoreAdd(h, name) ==
  LET ns == heap[h]
      newNs == Dup(ns)
      err == memStoreAddErr(h, name)
  IN  IF err = "panic" THEN Panics
      ELSE /\ heap' = IF newNs.err = "nil" THEN Append(heap, newNs.ns) ELSE heap
           /\ data' = IF err = "nil"
                      THEN [data EXCEPT ![ns.typ] = (name :> Len(heap) + 1) @@ @]
                      ELSE data
           /\ reg' = IF err = "nil" THEN Registered(ns.typ, name, h) ELSE reg
           /\ UNCHANGED <<proc, nsCount, fsDirs, fsFiles, held, got, dups,
                          halted>>

\* What memStore.Delete(typ, name) returns.
memStoreDeleteErr(typ, name) ==
  IF name \notin DOMAIN data[typ] THEN "ErrNotExists"
  ELSE Close(heap[data[typ][name]]).err

\* memStore.Delete(typ, name).
memStoreDelete(typ, name) ==
  LET err == memStoreDeleteErr(typ, name) IN
  IF err = "panic" THEN Panics
  ELSE IF err = "ErrNotExists"
  THEN UNCHANGED <<proc, nsCount, fsDirs, fsFiles, heap, held, got, dups, data,
                   reg, halted>>
  ELSE LET p == data[typ][name]
       IN  /\ data' = [data EXCEPT ![typ] = [n \in DOMAIN @ \ {name} |-> @[n]]]
           /\ heap' = [heap EXCEPT ![p] = Close(heap[p]).ns]
           /\ reg' = Unregistered(typ, name)
           /\ UNCHANGED <<proc, nsCount, fsDirs, fsFiles, held, got, dups,
                          halted>>

\* memStore.Exists(typ, name).
memStoreExists(typ, name) == name \in DOMAIN data[typ]

\* A faulty Get: returns the Namespace the store keeps (p: its pointer).
memStoreGet_NoDup(typ, name) ==
  IF name \in DOMAIN data[typ]
  THEN IF heap[data[typ][name]].closed
       THEN [err |-> "panic", ns |-> NoNs, p |-> 0]
       ELSE [err |-> "nil", ns |-> heap[data[typ][name]], p |-> data[typ][name]]
  ELSE [err |-> "ErrNotExists", ns |-> NoNs, p |-> 0]

\* memStore.Get(typ, name): the error and the Namespace returned, a new one
\* (p = 0) made by Dup.
memStoreGet(typ, name) ==
  IF name \in DOMAIN data[typ]
  THEN [p |-> 0] @@ Dup(heap[data[typ][name]])
  ELSE [err |-> "ErrNotExists", ns |-> NoNs, p |-> 0]

\* A faulty List: the keys as a map iteration may yield them, not sorted.
memStoreList_NoSort(typ) ==
  LET s == SortStrings(DOMAIN data[typ])
  IN  [i \in 1..Len(s) |-> s[Len(s) + 1 - i]]

\* memStore.List(typ): the keys of s.data[typ], then sort.Strings.
memStoreList(typ) == SortStrings(DOMAIN data[typ])

(***************************************************************************)
(* store/fs: fsStore.                                                      *)
(***************************************************************************)
\* NewFsStore(root, ft, flat) on an empty root: the directories it leaves.
NewFsStore(isFlat) ==
  {<<Root>>} \cup
  (IF isFlat THEN {} ELSE {Join2(Root, StringLower(t)) : t \in Types})

\* fsStore.targetPath(name, typ).
targetPath(name, typ) ==
  IF flat THEN Join2(Root, name) ELSE Join3(Root, StringLower(typ), name)

\* filepath.Dir.
Dir(path) == SubSeq(path, 1, Len(path) - 1)

\* FsType: FsNone, FsTmpfs, FsBind.
FsTypes == {"FsNone", "FsTmpfs", "FsBind"}

\* The per-type directories of the nested layout.
TypeDirs == {Join2(Root, StringLower(t)) : t \in Types}

\* dirIsEmpty(root) on a filesystem with the directories dirs and the files
\* files: os.Open fails when root is missing; Readdirnames(1) returns io.EOF
\* when root has no entry.
dirIsEmpty(dirs, files) ==
  IF <<Root>> \notin dirs THEN [err |-> "ENOENT", empty |-> FALSE]
  ELSE [err |-> "nil",
        empty |-> ~\E q \in dirs \cup files : Len(q) > 1 /\ Dir(q) = <<Root>>]

\* A faulty NewFsStore: "if empty", the layout is not looked at.
NewFsStoreIn_AnyLayout(dirs, files, ft, isFlat) ==
  IF <<Root>> \notin dirs
  THEN [err |-> "ENOENT", dirs |-> dirs, files |-> files, empty |-> FALSE, made |-> {}]
  ELSE LET seenDirs == IF ft = "FsTmpfs" THEN {<<Root>>} ELSE dirs
           seenFiles == IF ft = "FsTmpfs" THEN {} ELSE files
           e == dirIsEmpty(seenDirs, seenFiles)
           made == IF e.empty THEN TypeDirs ELSE {}
       IN  [err |-> "nil", dirs |-> seenDirs \cup made, files |-> seenFiles,
            empty |-> e.empty, made |-> made]

\* NewFsStore(root, ft, flat) on a filesystem with the directories dirs and
\* the files files: the error, the directories and files under root
\* afterwards, whether it found root empty, and the directories it made.
\* FsTmpfs mounts a fresh tmpfs on root, which hides what was there; FsBind
\* binds root on itself. The mounts and os.Open fail when root is missing.
NewFsStoreIn(dirs, files, ft, isFlat) ==
  IF <<Root>> \notin dirs
  THEN [err |-> "ENOENT", dirs |-> dirs, files |-> files, empty |-> FALSE, made |-> {}]
  ELSE LET seenDirs == IF ft = "FsTmpfs" THEN {<<Root>>} ELSE dirs
           seenFiles == IF ft = "FsTmpfs" THEN {} ELSE files
           e == dirIsEmpty(seenDirs, seenFiles)
           made == IF e.empty /\ ~isFlat THEN TypeDirs ELSE {}
       IN  [err |-> "nil", dirs |-> seenDirs \cup made, files |-> seenFiles,
            empty |-> e.empty, made |-> made]

\* fsStore.Exists(typ, name).
fsStoreExists(typ, name) == OsStat(targetPath(name, typ)) = "nil"

\* os.Create(trgt): the error, or "nil".
OsCreateErr(trgt) == IF Dir(trgt) \in fsDirs THEN "nil" ELSE "ENOENT"

\* What fsStore.Add(ns, name) returns.
fsStoreAddErr(h, name) ==
  LET ns == heap[h] IN
  IF ns.closed THEN "panic"
  ELSE LET src == FileName(ns)
           trgt == targetPath(name, ns.typ)
       IN  IF OsStat(src) # "nil" THEN OsStat(src)
           ELSE IF OsStat(trgt) = "nil" THEN "ErrExists"
           ELSE IF OsCreateErr(trgt) # "nil" THEN OsCreateErr(trgt)
           ELSE MountBindErr(src)

\* fsStore.Add(ns, name): the file is created before the mount is tried and
\* stays when the mount fails.
fsStoreAdd(h, name) ==
  LET ns == heap[h]
      err == fsStoreAddErr(h, name)
  IN  IF err = "panic" THEN Panics
      ELSE LET src == FileName(ns)
               trgt == targetPath(name, ns.typ)
               created == /\ OsStat(src) = "nil"
                          /\ OsStat(trgt) # "nil"
                          /\ OsCreateErr(trgt) = "nil"
           IN  /\ fsFiles' = IF ~created THEN fsFiles
                             ELSE IF err = "nil" THEN (trgt :> Resolve(src)) @@ fsFiles
                             ELSE (trgt :> RegularFile) @@ fsFiles
               /\ reg' = IF err = "nil" THEN Registered(ns.typ, name, h) ELSE reg
               /\ UNCHANGED <<proc, nsCount, fsDirs, heap, held, got, dups,
                              data, halted>>

\* What fsStore.Delete(typ, name) returns.
fsStoreDeleteErr(typ, name) ==
  IF ~fsStoreExists(typ, name) THEN "ErrNotExists"
  ELSE UnmountErr(targetPath(name, typ))

\* fsStore.Delete(typ, name).
fsStoreDelete(typ, name) ==
  LET trgt == targetPath(name, typ)
      err == fsStoreDeleteErr(typ, name)
  IN  /\ fsFiles' = IF err = "nil"
                    THEN [q \in DOMAIN fsFiles \ {trgt} |-> fsFiles[q]]
                    ELSE fsFiles
      /\ reg' = IF err = "nil" THEN Unregistered(typ, name) ELSE reg
      /\ UNCHANGED <<proc, nsCount, fsDirs, heap, held, got, dups, data,
                     halted>>

\* fsStore.Get(typ, name): the error and the Namespace returned, a new one
\* (p = 0) made by namespace.FromPath, the Open of namespace.go.
fsStoreGet(typ, name) ==
  IF ~fsStoreExists(typ, name)
  THEN [err |-> "ErrNotExists", ns |-> NoNs, p |-> 0]
  ELSE [p |-> 0] @@ Open(targetPath(name, typ))

\* fsStore.List(typ): ioutil.ReadDir returns the entries sorted by name.
fsStoreList(typ) ==
  LET dir == Join2(Root, StringLower(typ))
  IN  IF dir \notin fsDirs THEN <<>>
      ELSE SortStrings({q[Len(q)] : q \in {f \in DOMAIN fsFiles : Dir(f) = dir}})

(***************************************************************************)
(* store.Store: the calls on the store the callers were given.             *)
(***************************************************************************)
\* What s.Add(ns, name) returns in this state.
StoreAddErr(h, name) ==
  IF backend = "mem" THEN memStoreAddErr(h, name) ELSE fsStoreAddErr(h, name)

\* s.Add(ns, name).
Add(h, name) ==
  /\ ~halted
  /\ IF backend = "mem"
     THEN Len(heap) < MaxHandles /\ memStoreAdd(h, name)
     ELSE fsStoreAdd(h, name)
  /\ UNCHANGED <<backend, flat, ret, mask, self, thr>>

\* What s.Delete(typ, name) returns in this state.
StoreDeleteErr(typ, name) ==
  IF backend = "mem" THEN memStoreDeleteErr(typ, name)
  ELSE fsStoreDeleteErr(typ, name)

\* s.Delete(typ, name).
Delete(typ, name) ==
  /\ ~halted
  /\ IF backend = "mem" THEN memStoreDelete(typ, name) ELSE fsStoreDelete(typ, name)
  /\ UNCHANGED <<backend, flat, ret, mask, self, thr>>

\* What s.Get(typ, name) returns in this state.
StoreGet(typ, name) ==
  IF backend = "mem" THEN memStoreGet(typ, name) ELSE fsStoreGet(typ, name)

\* The pointer s.Get(typ, name) returns in this state when it returns nil.
GetPointer(typ, name) ==
  IF StoreGet(typ, name).p = 0 THEN Len(heap) + 1 ELSE StoreGet(typ, name).p

\* s.Get(typ, name).
Get(typ, name) ==
  /\ ~halted
  /\ Room
  /\ LET r == StoreGet(typ, name)
     IN  IF r.err = "panic"
         THEN Panics
         ELSE /\ IF r.err = "nil" /\ r.p # 0
                 THEN held' = held \cup {r.p} /\ UNCHANGED heap
                 ELSE Returns(r)
              /\ got' = IF r.err = "nil" THEN got \cup {GetPointer(typ, name)} ELSE got
              /\ UNCHANGED <<proc, nsCount, fsDirs, fsFiles, dups, data, reg,
                             halted>>
  /\ UNCHANGED <<backend, flat, ret, mask, self, thr>>

\* What s.Exists(typ, name) returns in this state.
StoreExists(typ, name) ==
  IF backend = "mem" THEN memStoreExists(typ, name) ELSE fsStoreExists(typ, name)

\* s.Exists(typ, name): reads, changes nothing.
Exists(typ, name) ==
  /\ ~halted
  /\ StoreExists(typ, name) \in BOOLEAN
  /\ UNCHANGED vars

\* What s.List(typ) returns in this state.
StoreList(typ) ==
  IF backend = "mem" THEN memStoreList(typ) ELSE fsStoreList(typ)

\* s.List(typ): reads, changes nothing.
List(typ) ==
  /\ ~halted
  /\ StoreList(typ) \in Seq(Names)
  /\ UNCHANGED vars

(***************************************************************************)
(* Goroutines that call the memStore concurrently (SpecConc). Each makes   *)
(* one call: pc is "ready" before it, "done" after it, and in between the  *)
(* place in the code the goroutine has reached.                            *)
(*   typ, name, h   the arguments (h: pointer to the caller's Namespace)   *)
(*   ns             Get, Delete: the pointer read from the map (0 is nil)  *)
(*   newNs          Add: the pointer Dup returned                          *)
(*   err, out       what the call returned                                 *)
(*   past           what the goroutine's call before this one returned     *)
(***************************************************************************)
Goroutines == {"g1", "g2"}

Ready == [pc |-> "ready", op |-> "", typ |-> "", name |-> "", h |-> 0,
          ns |-> 0, newNs |-> 0, err |-> "", out |-> 0, past |-> ""]

\* Nothing was called on a Namespace yet.
NoCall == [op |-> "", h |-> 0, k |-> "", f |-> NoFault, err |-> "", out |-> 0,
           val |-> 0, q |-> FALSE]

(***************************************************************************)
(* Spec: one caller, every call runs to completion.                        *)
(***************************************************************************)
Init ==
  /\ proc = [pid \in Pids |-> NoProc]
  /\ nsCount = 0
  /\ self = [t \in Types |-> InitIno(t)]
  /\ backend \in {"mem", "fs"}
  /\ flat \in BOOLEAN
  /\ backend = "mem" => ~flat
  /\ fsDirs = IF backend = "fs" THEN NewFsStore(flat) ELSE {}
  /\ fsFiles = [q \in {} |-> NoEnt]
  /\ heap = <<>>
  /\ held = {}
  /\ got = {}
  /\ dups = {}
  /\ data = NewMemStore
  /\ reg = [k \in {} |-> 0]
  /\ halted = FALSE
  /\ thr = [g \in Goroutines |-> Ready]
  /\ ret = NoCall
  /\ mask = NewMask

Next ==
  \/ \E pid \in Pids : newProcess(pid, SetAll)
  \/ \E pid \in Pids : Kill(pid)
  \/ \E pid \in Pids, t \in Kinds : Unshare(pid, t)
  \/ \E pid \in Pids, t \in Kinds : OpenPID(pid, t)
  \/ \E t \in Kinds : OpenSelf(t)
  \/ \E h \in held : CallDup(h)
  \/ \E h \in held : CallClose(h)
  \/ \E h \in held, name \in Names : Add(h, name)
  \/ \E t \in Kinds, name \in Names : Delete(t, name)
  \/ \E t \in Kinds, name \in Names : Get(t, name)
  \/ \E t \in Kinds, name \in Names : Exists(t, name)
  \/ \E t \in Kinds : List(t)

Spec == Init /\ [][Next]_vars


(***************************************************************************)
(* SpecConc: a caller fills a memStore, then two goroutines call it at the *)
(* same time. memStore embeds a sync.RWMutex and no method takes it, so    *)
(* the steps of the calls interleave freely: a step is one access to the   *)
(* shared map or to a shared Namespace, or one kernel call.                *)
(***************************************************************************)
Forked == \E g \in Goroutines : thr[g].pc # "ready"

Running(g) == thr[g].pc \notin {"ready", "done"}

\* Namespaces the calls in progress may still allocate.
Pending == Cardinality({g \in Goroutines : Running(g) /\ thr[g].op \in {"Add", "Get"}})

PendingGets == Cardinality({g \in Goroutines : Running(g) /\ thr[g].op = "Get"})

\* Another goroutine is inside a write (assignment or delete) of s.data[typ].
\* The runtime's check for this ("concurrent map read and map write",
\* "concurrent map writes") is best effort: the access is fatal or goes on.
MapRace(g, typ) ==
  \E o \in Goroutines \ {g} :
    thr[o].pc \in {"add_assigned", "del_deleted"} /\ thr[o].typ = typ

Throws(g, typ) == IF MapRace(g, typ) THEN BOOLEAN ELSE {FALSE}

Fatal ==
  /\ halted' = TRUE
  /\ UNCHANGED <<proc, nsCount, fsDirs, fsFiles, heap, held, got, dups,
                 backend, flat, ret, mask, self, data, reg, thr>>

Goes(g, pc) == thr' = [thr EXCEPT ![g].pc = pc]

Return(g, err) == thr' = [thr EXCEPT ![g].pc = "done", ![g].err = err]

\* Before the goroutines start: the caller opens namespaces and adds them.
Setup ==
  /\ ~Forked
  /\ \/ \E t \in Kinds : OpenSelf(t)
     \/ \E h \in held, name \in Names : backend = "mem" /\ Add(h, name)

\* go s.Add(ns, name)
GoAdd(g, h, name) ==
  /\ ~halted /\ backend = "mem"
  /\ thr[g].pc = "ready"
  /\ Len(heap) + Pending < MaxHandles
  /\ thr' = [thr EXCEPT ![g] = [Ready EXCEPT !.pc = "add_dup", !.op = "Add",
                                  !.h = h, !.name = name, !.typ = heap[h].typ]]
  /\ UNCHANGED <<proc, nsCount, fsDirs, fsFiles, heap, held, got, dups,
                 backend, flat, ret, mask, self, data, reg, halted>>

\* go s.Get(typ, name)
GoGet(g, typ, name) ==
  /\ ~halted /\ backend = "mem"
  /\ thr[g].pc = "ready"
  /\ Len(heap) + Pending < MaxHandles
  /\ Cardinality(held) + PendingGets < MaxHeld
  /\ thr' = [thr EXCEPT ![g] = [Ready EXCEPT !.pc = "get_lookup", !.op = "Get",
                                  !.typ = typ, !.name = name]]
  /\ UNCHANGED <<proc, nsCount, fsDirs, fsFiles, heap, held, got, dups,
                 backend, flat, ret, mask, self, data, reg, halted>>

\* go s.Delete(typ, name)
GoDelete(g, typ, name) ==
  /\ ~halted /\ backend = "mem"
  /\ thr[g].pc = "ready"
  /\ thr' = [thr EXCEPT ![g] = [Ready EXCEPT !.pc = "del_lookup", !.op = "Delete",
                                  !.typ = typ, !.name = name]]
  /\ UNCHANGED <<proc, nsCount, fsDirs, fsFiles, heap, held, got, dups,
                 backend, flat, ret, mask, self, data, reg, halted>>

\* Dup: if ns.closed { panic(...) }
DupCheck(g) ==
  /\ ~halted
  /\ thr[g].pc \in {"add_dup", "get_dup"}
  /\ LET p == IF thr[g].op = "Add" THEN thr[g].h ELSE thr[g].ns
     IN  IF heap[p].closed
         THEN Fatal
         ELSE /\ Goes(g, IF thr[g].op = "Add" THEN "add_dupsys" ELSE "get_dupsys")
              /\ UNCHANGED <<proc, nsCount, fsDirs, fsFiles, heap, held, got,
                             dups, backend, flat, ret, mask, self, data, reg,
                             halted>>

\* Dup: unix.Dup(int(ns.file.Fd())), os.NewFile, stat; Get returns here.
DupSys(g) ==
  /\ ~halted
  /\ thr[g].pc \in {"add_dupsys", "get_dupsys"}
  /\ LET p == IF thr[g].op = "Add" THEN thr[g].h ELSE thr[g].ns
         r == DupFile(heap[p])
         new == Len(heap) + 1
     IN  IF r.err # "nil"
         THEN /\ Return(g, r.err)
              /\ UNCHANGED <<heap, held, got, dups>>
         ELSE /\ heap' = Append(heap, r.ns)
              /\ IF thr[g].op = "Add"
                 THEN /\ thr' = [thr EXCEPT ![g].pc = "add_lookup", ![g].newNs = new]
                      /\ UNCHANGED <<held, got, dups>>
                 ELSE /\ thr' = [thr EXCEPT ![g].pc = "done", ![g].err = "nil",
                                            ![g].out = new]
                      /\ held' = held \cup {new}
                      /\ got' = got \cup {new}
                      /\ UNCHANGED dups
  /\ UNCHANGED <<proc, nsCount, fsDirs, fsFiles, backend, flat, ret, mask, self,
                 data, reg, halted>>

\* Add: if _, ok := s.data[ns.Type()][name]; ok { return store.ErrExists }
AddLookup(g) ==
  /\ ~halted
  /\ thr[g].pc = "add_lookup"
  /\ \E throw \in Throws(g, thr[g].typ) :
       IF throw THEN Fatal
       ELSE /\ IF thr[g].name \in DOMAIN data[thr[g].typ]
               THEN Return(g, "ErrExists")
               ELSE Goes(g, "add_assign")
            /\ UNCHANGED <<proc, nsCount, fsDirs, fsFiles, heap, held, got,
                           dups, backend, flat, ret, mask, self, data, reg, halted>>

\* Add: s.data[ns.Type()][name] = newNs
AddAssign(g) ==
  /\ ~halted
  /\ thr[g].pc = "add_assign"
  /\ \E throw \in Throws(g, thr[g].typ) :
       IF throw THEN Fatal
       ELSE /\ data' = [data EXCEPT ![thr[g].typ] =
                          (thr[g].name :> thr[g].newNs) @@ @]
            /\ Goes(g, "add_assigned")
            /\ UNCHANGED <<proc, nsCount, fsDirs, fsFiles, heap, held, got,
                           dups, backend, flat, ret, mask, self, reg, halted>>

\* Add: the assignment is over; return nil
AddReturn(g) ==
  /\ ~halted
  /\ thr[g].pc = "add_assigned"
  /\ Return(g, "nil")
  /\ UNCHANGED <<proc, nsCount, fsDirs, fsFiles, heap, held, got, dups,
                 backend, flat, ret, mask, self, data, reg, halted>>

\* Get: if ns, ok := s.data[typ][name]; ok { ... }; return nil, store.ErrNotExists
GetLookup(g) ==
  /\ ~halted
  /\ thr[g].pc = "get_lookup"
  /\ \E throw \in Throws(g, thr[g].typ) :
       IF throw THEN Fatal
       ELSE /\ IF thr[g].name \in DOMAIN data[thr[g].typ]
               THEN thr' = [thr EXCEPT ![g].pc = "get_dup",
                                       ![g].ns = data[thr[g].typ][thr[g].name]]
               ELSE Return(g, "ErrNotExists")
            /\ UNCHANGED <<proc, nsCount, fsDirs, fsFiles, heap, held, got,
                           dups, backend, flat, ret, mask, self, data, reg, halted>>

\* Delete: if _, ok := s.data[typ][name]; !ok { return store.ErrNotExists }
DeleteLookup(g) ==
  /\ ~halted
  /\ thr[g].pc = "del_lookup"
  /\ \E throw \in Throws(g, thr[g].typ) :
       IF throw THEN Fatal
       ELSE /\ IF thr[g].name \in DOMAIN data[thr[g].typ]
               THEN Goes(g, "del_read")
               ELSE Return(g, "ErrNotExists")
            /\ UNCHANGED <<proc, nsCount, fsDirs, fsFiles, heap, held, got,
                           dups, backend, flat, ret, mask, self, data, reg, halted>>

\* Delete: ns := s.data[typ][name] (nil when the entry is gone by now)
DeleteRead(g) ==
  /\ ~halted
  /\ thr[g].pc = "del_read"
  /\ \E throw \in Throws(g, thr[g].typ) :
       IF throw THEN Fatal
       ELSE /\ thr' = [thr EXCEPT ![g].pc = "del_delete",
                                  ![g].ns = IF thr[g].name \in DOMAIN data[thr[g].typ]
                                            THEN data[thr[g].typ][thr[g].name]
                                            ELSE 0]
            /\ UNCHANGED <<proc, nsCount, fsDirs, fsFiles, heap, held, got,
                           dups, backend, flat, ret, mask, self, data, reg, halted>>

\* Delete: delete(s.data[typ], name)
DeleteDelete(g) ==
  /\ ~halted
  /\ thr[g].pc = "del_delete"
  /\ \E throw \in Throws(g, thr[g].typ) :
       IF throw THEN Fatal
       ELSE /\ data' = [data EXCEPT ![thr[g].typ] =
                          [n \in DOMAIN @ \ {thr[g].name} |-> @[n]]]
            /\ Goes(g, "del_deleted")
            /\ UNCHANGED <<proc, nsCount, fsDirs, fsFiles, heap, held, got,
                           dups, backend, flat, ret, mask, self, reg, halted>>

\* Delete: the delete is over; ns.Close(): if ns.closed { panic(...) }
\* (a nil ns panics as well)
DeleteCloseCheck(g) ==
  /\ ~halted
  /\ thr[g].pc = "del_deleted"
  /\ IF thr[g].ns = 0 \/ heap[thr[g].ns].closed
     THEN Fatal
     ELSE /\ Goes(g, "del_close")
          /\ UNCHANGED <<proc, nsCount, fsDirs, fsFiles, heap, held, got, dups,
                         backend, flat, ret, mask, self, data, reg, halted>>

\* Close: ns.closed = true
DeleteCloseSet(g) ==
  /\ ~halted
  /\ thr[g].pc = "del_close"
  /\ heap' = [heap EXCEPT ![thr[g].ns].closed = TRUE]
  /\ Goes(g, "del_fileclose")
  /\ UNCHANGED <<proc, nsCount, fsDirs, fsFiles, held, got, dups, backend,
                 flat, ret, mask, self, data, reg, halted>>

\* Close: return ns.file.Close()
DeleteFileClose(g) ==
  /\ ~halted
  /\ thr[g].pc = "del_fileclose"
  /\ Return(g, IF heap[thr[g].ns].file.open THEN "nil" ELSE "ErrClosed")
  /\ heap' = [heap EXCEPT ![thr[g].ns] = CloseFile(@)]
  /\ UNCHANGED <<proc, nsCount, fsDirs, fsFiles, held, got, dups, backend,
                 flat, ret, mask, self, data, reg, halted>>

InitConc == Init /\ backend = "mem"

NextConc ==
  \/ Setup
  \/ \E g \in Goroutines, h \in held, name \in Names : GoAdd(g, h, name)
  \/ \E g \in Goroutines, t \in Kinds, name \in Names : GoGet(g, t, name)
  \/ \E g \in Goroutines, t \in Kinds, name \in Names : GoDelete(g, t, name)
  \/ \E g \in Goroutines : DupCheck(g)
  \/ \E g \in Goroutines : DupSys(g)
  \/ \E g \in Goroutines : AddLookup(g)
  \/ \E g \in Goroutines : AddAssign(g)
  \/ \E g \in Goroutines : AddReturn(g)
  \/ \E g \in Goroutines : GetLookup(g)
  \/ \E g \in Goroutines : DeleteLookup(g)
  \/ \E g \in Goroutines : DeleteRead(g)
  \/ \E g \in Goroutines : DeleteDelete(g)
  \/ \E g \in Goroutines : DeleteCloseCheck(g)
  \/ \E g \in Goroutines : DeleteCloseSet(g)
  \/ \E g \in Goroutines : DeleteFileClose(g)

SpecConc == InitConc /\ [][NextConc]_vars


(***************************************************************************)
(* SpecNs: one caller opens paths and calls the methods of Namespace that  *)
(* ask about a namespace, on all seven Types; the kernel fails its calls   *)
(* as it may. No store is used (the root of an fs store is there to be     *)
(* opened as a path).                                                      *)
(***************************************************************************)
InitNs == Init /\ backend = "fs" /\ ~flat

NextNs ==
  \/ \E pid \in Pids : newProcess(pid, SetAll)
  \/ \E pid \in Pids : Kill(pid)
  \/ \E path \in NsPaths, f \in Faults : CallOpen(path, f)
  \/ \E h \in held : CallDup(h)
  \/ \E h \in held : CallClose(h)
  \/ \E h \in held : CallType(h)
  \/ \E h \in held : CallFd(h)
  \/ \E h \in held : CallIno(h)
  \/ \E h \in held : CallDev(h)
  \/ \E h \in held : CallFileName(h)
  \/ \E h \in held, k \in Answers : CallParent(h, k)
  \/ \E h \in held, k \in Answers : CallOwningUserNS(h, k)
  \/ \E h \in held, k \in Answers : CallOwnerUID(h, k)

SpecNs == InitNs /\ [][NextNs]_vars

(***************************************************************************)
(* SpecSet: one caller opens the namespaces of the processes and its own   *)
(* and enters them with Set and SetAndClose.                               *)
(***************************************************************************)
InitSet == Init /\ backend = "mem"

NextSet ==
  \/ \E pid \in Pids : newProcess(pid, SetAll)
  \/ \E pid \in Pids : Kill(pid)
  \/ \E pid \in Pids, t \in Types : OpenPID(pid, t)
  \/ \E t \in Types : OpenSelf(t)
  \/ \E h \in held : CallDup(h)
  \/ \E h \in held : CallClose(h)
  \/ \E h \in held, k \in {"ok", "EPERM"} : CallSet(h, k)
  \/ \E h \in held, k \in {"ok", "EPERM"} : CallSetAndClose(h, k)

SpecSet == InitSet /\ [][NextSet]_vars

(***************************************************************************)
(* SpecMask: a caller builds a Mask from NewMask() with Set, Remove and    *)
(* SetAll and asks it with Has and Uintptr. ret: op, the Type t passed     *)
(* (k), the receiver (val) and for Has and Uintptr the result (out).       *)
(***************************************************************************)
MaskCall(op, t, out) ==
  [NoCall EXCEPT !.op = op, !.k = t, !.val = mask, !.out = out, !.err = "nil"]

\* mask = op(mask, t).
Masks(op, t, m) ==
  /\ ~halted
  /\ mask' = m
  /\ ret' = MaskCall(op, t, 0)
  /\ UNCHANGED <<proc, nsCount, self, fsDirs, fsFiles, heap, held, got, dups,
                 backend, flat, data, reg, halted, thr>>

\* mask = NewMask()
CallNewMask == Masks("NewMask", "", NewMask)

\* mask = mask.Set(t)
CallMaskSet(t) == Masks("Set", t, Set(mask, t))

\* mask = mask.Remove(t)
CallMaskRemove(t) == Masks("Remove", t, Remove(mask, t))

\* mask = mask.SetAll()
CallMaskSetAll == Masks("SetAll", "", SetAll)

\* mask.Has(t)
CallMaskHas(t) ==
  /\ ~halted
  /\ ret' = MaskCall("Has", t, IF Has(mask, t) THEN 1 ELSE 0)
  /\ UNCHANGED <<proc, nsCount, self, fsDirs, fsFiles, heap, held, got, dups,
                 backend, flat, data, reg, halted, thr, mask>>

\* mask.Uintptr()
CallMaskUintptr ==
  /\ ~halted
  /\ ret' = MaskCall("Uintptr", "", Uintptr(mask))
  /\ UNCHANGED <<proc, nsCount, self, fsDirs, fsFiles, heap, held, got, dups,
                 backend, flat, data, reg, halted, thr, mask>>

InitMask == Init /\ backend = "mem"

NextMask ==
  \/ CallNewMask
  \/ \E t \in Types : CallMaskSet(t)
  \/ \E t \in Types : CallMaskRemove(t)
  \/ CallMaskSetAll
  \/ \E t \in Types : CallMaskHas(t)
  \/ CallMaskUintptr

SpecMask == InitMask /\ [][NextMask]_vars

(***************************************************************************)
(* SpecFsConc: a caller opens namespaces and fills an fsStore, then two    *)
(* goroutines call it at the same time. fsStore has no lock: Add is        *)
(* os.Stat(src), os.Stat(trgt), os.Create(trgt), unix.Mount, and Delete is *)
(* os.Stat(trgt), unix.Unmount, os.Remove; a step is one of these system   *)
(* calls. A goroutine calls Add or Delete, and after an Add it may call    *)
(* Delete of what it added (past keeps what the Add returned).             *)
(*                                                                         *)
(* A bind mount on a path that is a mount already is stacked on it: the    *)
(* node keeps the one below in the field under, and an unmount takes the   *)
(* top one away.                                                           *)
(***************************************************************************)
\* The node at trgt once src is bind-mounted on it.
Stacked(src, trgt) ==
  IF fsFiles[trgt].t = "nsfs"
  THEN [t |-> "nsfs", ino |-> Resolve(src).ino, under |-> fsFiles[trgt]]
  ELSE NsFile(Resolve(src).ino)

\* The node at trgt once the top mount is taken away.
Unstacked(trgt) ==
  IF "under" \in DOMAIN fsFiles[trgt] THEN fsFiles[trgt].under ELSE RegularFile

\* The target path of the call a goroutine is in.
Target(g) == targetPath(thr[g].name, thr[g].typ)

\* go s.Add(ns, name) on the fsStore
GoFsAdd(g, h, name) ==
  /\ ~halted /\ backend = "fs"
  /\ thr[g].pc = "ready"
  /\ thr' = [thr EXCEPT ![g] = [Ready EXCEPT !.pc = "fsadd_statsrc", !.op = "Add",
                                  !.h = h, !.name = name, !.typ = heap[h].typ]]
  /\ UNCHANGED <<proc, nsCount, fsDirs, fsFiles, heap, held, got, dups,
                 backend, flat, ret, mask, self, data, reg, halted>>

\* go s.Delete(typ, name) on the fsStore
GoFsDelete(g, typ, name) ==
  /\ ~halted /\ backend = "fs"
  /\ thr[g].pc = "ready"
  /\ thr' = [thr EXCEPT ![g] = [Ready EXCEPT !.pc = "fsdel_exists", !.op = "Delete",
                                  !.typ = typ, !.name = name]]
  /\ UNCHANGED <<proc, nsCount, fsDirs, fsFiles, heap, held, got, dups,
                 backend, flat, ret, mask, self, data, reg, halted>>

\* The goroutine's Add has returned; it goes on with s.Delete(ns.Type(), name).
FsDeleteAfterAdd(g) ==
  /\ ~halted /\ backend = "fs"
  /\ thr[g].pc = "done" /\ thr[g].op = "Add" /\ thr[g].past = ""
  /\ thr' = [thr EXCEPT ![g] = [Ready EXCEPT !.pc = "fsdel_exists", !.op = "Delete",
                                  !.typ = thr[g].typ, !.name = thr[g].name,
                                  !.past = thr[g].err]]
  /\ UNCHANGED <<proc, nsCount, fsDirs, fsFiles, heap, held, got, dups,
                 backend, flat, ret, mask, self, data, reg, halted>>

\* Add: if _, err := os.Stat(ns.FileName()); err != nil { return err }
FsAddStatSrc(g) ==
  /\ ~halted
  /\ thr[g].pc = "fsadd_statsrc"
  /\ IF heap[thr[g].h].closed
     THEN Fatal
     ELSE /\ IF OsStat(FileName(heap[thr[g].h])) # "nil"
             THEN Return(g, OsStat(FileName(heap[thr[g].h])))
             ELSE Goes(g, "fsadd_stattrgt")
          /\ UNCHANGED <<proc, nsCount, fsDirs, fsFiles, heap, held, got, dups,
                         backend, flat, ret, mask, self, data, reg, halted>>

\* Add: if _, err := os.Stat(trgt); err == nil { return store.ErrExists }
FsAddStatTrgt(g) ==
  /\ ~halted
  /\ thr[g].pc = "fsadd_stattrgt"
  /\ IF OsStat(Target(g)) = "nil"
     THEN Return(g, "ErrExists")
     ELSE Goes(g, "fsadd_create")
  /\ UNCHANGED <<proc, nsCount, fsDirs, fsFiles, heap, held, got, dups,
                 backend, flat, ret, mask, self, data, reg, halted>>

\* open(trgt, O_RDWR|O_CREATE|O_TRUNC, 0666): the errors it may return. It
\* creates the file or truncates the one that is there; when a namespace is
\* mounted on trgt the file to open for writing is the namespace file, which
\* the kernel may refuse.
OsCreateErrs(trgt) ==
  IF OsCreateErr(trgt) # "nil" THEN {OsCreateErr(trgt)}
  ELSE IF Resolve(trgt) # NoEnt /\ Resolve(trgt).t = "nsfs" THEN {"nil", "EACCES"}
  ELSE {"nil"}

\* A faulty create, open(trgt, O_RDWR|O_CREATE|O_EXCL): a second existence
\* check, made by the kernel together with the creation.
FsAddCreate_Excl(g) ==
  /\ ~halted
  /\ thr[g].pc = "fsadd_create"
  /\ IF Resolve(Target(g)) # NoEnt
     THEN Return(g, "ErrExists") /\ UNCHANGED fsFiles
     ELSE /\ Goes(g, "fsadd_mount")
          /\ fsFiles' = (Target(g) :> RegularFile) @@ fsFiles
  /\ UNCHANGED <<proc, nsCount, fsDirs, heap, held, got, dups,
                 backend, flat, ret, mask, self, data, reg, halted>>

\* Add: f, err := os.Create(trgt); if err != nil { return err }
FsAddCreate(g) ==
  /\ ~halted
  /\ thr[g].pc = "fsadd_create"
  /\ \E e \in OsCreateErrs(Target(g)) :
       IF e # "nil"
       THEN Return(g, e) /\ UNCHANGED fsFiles
       ELSE /\ Goes(g, "fsadd_mount")
            /\ fsFiles' = IF Target(g) \in DOMAIN fsFiles THEN fsFiles
                          ELSE (Target(g) :> RegularFile) @@ fsFiles
  /\ UNCHANGED <<proc, nsCount, fsDirs, heap, held, got, dups,
                 backend, flat, ret, mask, self, data, reg, halted>>

\* mount(src, trgt, MS_BIND) now: the error, or "nil".
FsMountErr(src, trgt) ==
  IF Resolve(trgt) = NoEnt THEN "ENOENT" ELSE MountBindErr(src)

\* Add: return unix.Mount(src, trgt, "", unix.MS_BIND, "")
FsAddMount(g) ==
  /\ ~halted
  /\ thr[g].pc = "fsadd_mount"
  /\ LET src == FileName(heap[thr[g].h])
         e == FsMountErr(src, Target(g))
     IN  /\ Return(g, e)
         /\ fsFiles' = IF e = "nil"
                       THEN [fsFiles EXCEPT ![Target(g)] = Stacked(src, Target(g))]
                       ELSE fsFiles
  /\ UNCHANGED <<proc, nsCount, fsDirs, heap, held, got, dups,
                 backend, flat, ret, mask, self, data, reg, halted>>

\* Delete: if !s.Exists(typ, name) { return store.ErrNotExists }
FsDeleteExists(g) ==
  /\ ~halted
  /\ thr[g].pc = "fsdel_exists"
  /\ IF fsStoreExists(thr[g].typ, thr[g].name)
     THEN Goes(g, "fsdel_unmount")
     ELSE Return(g, "ErrNotExists")
  /\ UNCHANGED <<proc, nsCount, fsDirs, fsFiles, heap, held, got, dups,
                 backend, flat, ret, mask, self, data, reg, halted>>

\* umount(trgt, 0) now: the error, or "nil".
FsUnmountErr(trgt) ==
  IF Resolve(trgt) = NoEnt THEN "ENOENT" ELSE UnmountErr(trgt)

\* Delete: err := unix.Unmount(trgt, 0); if err != nil { return err }
FsDeleteUnmount(g) ==
  /\ ~halted
  /\ thr[g].pc = "fsdel_unmount"
  /\ LET e == FsUnmountErr(Target(g))
     IN  IF e # "nil"
         THEN Return(g, e) /\ UNCHANGED fsFiles
         ELSE /\ Goes(g, "fsdel_remove")
              /\ fsFiles' = [fsFiles EXCEPT ![Target(g)] = Unstacked(Target(g))]
  /\ UNCHANGED <<proc, nsCount, fsDirs, heap, held, got, dups,
                 backend, flat, ret, mask, self, data, reg, halted>>

\* unlink(trgt) now: the error, or "nil". A mount point cannot be removed.
OsRemoveErr(trgt) ==
  IF Resolve(trgt) = NoEnt THEN "ENOENT"
  ELSE IF Resolve(trgt).t = "nsfs" THEN "EBUSY"
  ELSE "nil"

\* Delete: return os.Remove(trgt)
FsDeleteRemove(g) ==
  /\ ~halted
  /\ thr[g].pc = "fsdel_remove"
  /\ LET e == OsRemoveErr(Target(g))
     IN  /\ Return(g, e)
         /\ fsFiles' = IF e = "nil"
                       THEN [q \in DOMAIN fsFiles \ {Target(g)} |-> fsFiles[q]]
                       ELSE fsFiles
  /\ UNCHANGED <<proc, nsCount, fsDirs, heap, held, got, dups,
                 backend, flat, ret, mask, self, data, reg, halted>>

\* Before the goroutines start: the caller opens namespaces and adds them.
FsSetup ==
  /\ ~Forked
  /\ \/ \E t \in Kinds : OpenSelf(t)
     \/ \E h \in held, name \in Names : backend = "fs" /\ Add(h, name)

InitFsConc == Init /\ backend = "fs"

NextFsConc ==
  \/ FsSetup
  \/ \E g \in Goroutines, h \in held, name \in Names : GoFsAdd(g, h, name)
  \/ \E g \in Goroutines, t \in Kinds, name \in Names : GoFsDelete(g, t, name)
  \/ \E g \in Goroutines : FsDeleteAfterAdd(g)
  \/ \E g \in Goroutines : FsAddStatSrc(g)
  \/ \E g \in Goroutines : FsAddStatTrgt(g)
  \/ \E g \in Goroutines : FsAddCreate(g)
  \/ \E g \in Goroutines : FsAddMount(g)
  \/ \E g \in Goroutines : FsDeleteExists(g)
  \/ \E g \in Goroutines : FsDeleteUnmount(g)
  \/ \E g \in Goroutines : FsDeleteRemove(g)

SpecFsConc == InitFsConc /\ [][NextFsConc]_vars

(***************************************************************************)
(* SpecNew: NewFsStore(root, ft, flat) is called on a root with some        *)
(* content, or on a missing root, and the caller then opens namespaces and *)
(* adds them to the store it got. ret keeps the call: k is ft, q whether   *)
(* root was found empty, out the number of directories made.               *)
(***************************************************************************)
\* What root may hold before the store is made: some of the per-type
\* directories and some files.
RootFiles == {Join2(Root, n) : n \in Names}

\* s, err := NewFsStore(Root, ft, flat)
CallNewFsStore(ft) ==
  /\ ~halted
  /\ ret = NoCall
  /\ LET r == NewFsStoreIn(fsDirs, DOMAIN fsFiles, ft, flat)
     IN  /\ fsDirs' = r.dirs
         /\ fsFiles' = [q \in r.files |-> fsFiles[q]]
         /\ ret' = [NoCall EXCEPT !.op = "NewFsStore", !.k = ft, !.err = r.err,
                                  !.q = r.empty, !.out = Cardinality(r.made)]
  /\ UNCHANGED <<proc, nsCount, self, heap, held, got, dups, backend, flat,
                 data, reg, halted, thr, mask>>

\* NewFsStore returned a store.
Made == ret.op = "NewFsStore" /\ ret.err = "nil"

\* ns, err := OpenSelf(t), by the caller of the new store
NewOpenSelf(t) == Made /\ OpenSelf(t)

\* s.Add(ns, name) on the new store
NewAdd(h, name) == Made /\ Add(h, name)

\* s.Delete(typ, name) on the new store
NewDelete(t, name) == Made /\ Delete(t, name)

InitNew ==
  /\ proc = [pid \in Pids |-> NoProc]
  /\ nsCount = 0
  /\ self = [t \in Types |-> InitIno(t)]
  /\ backend = "fs"
  /\ flat \in BOOLEAN
  /\ \E D \in SUBSET TypeDirs, rootThere \in BOOLEAN :
       fsDirs = IF rootThere THEN {<<Root>>} \cup D ELSE {}
  /\ \E F \in SUBSET RootFiles :
       fsFiles = IF <<Root>> \in fsDirs THEN [q \in F |-> RegularFile]
                 ELSE [q \in {} |-> NoEnt]
  /\ heap = <<>>
  /\ held = {}
  /\ got = {}
  /\ dups = {}
  /\ data = NewMemStore
  /\ reg = [k \in {} |-> 0]
  /\ halted = FALSE
  /\ thr = [g \in Goroutines |-> Ready]
  /\ ret = NoCall
  /\ mask = NewMask

NextNew ==
  \/ \E ft \in FsTypes : CallNewFsStore(ft)
  \/ \E t \in Kinds : NewOpenSelf(t)
  \/ \E h \in held, name \in Names : NewAdd(h, name)
  \/ \E t \in Kinds, name \in Names : NewDelete(t, name)

SpecNew == InitNew /\ [][NextNew]_vars

(***************************************************************************)
(* SpecPath: a caller opens its own namespaces and calls the fsStore with  *)
(* name strings of any shape. A name string is the sequence of its         *)
(* segments, the pieces between its separators: <<"">> is the empty        *)
(* string, <<"..", "a">> is "../a", <<"a", "">> is "a/". A path is the     *)
(* sequence of its elements below "/", Root being one element; <<>> is     *)
(* "/", which is a directory.                                              *)
(***************************************************************************)
Segments == {"", "..", "a", "net"}

MaxSegments == 2    \* segments of a name string

MaxEntries == 1     \* files the callers create under "/" during a run

NameStrings == UNION {[1..n -> Segments] : n \in 1..MaxSegments}

RECURSIVE CleanFrom(_, _)
\* filepath.Clean, element by element: an empty element (two separators in
\* a row) and "." are dropped, ".." drops the element before it, and at "/"
\* nothing.
CleanFrom(out, elems) ==
  IF elems = <<>> THEN out
  ELSE LET e == Head(elems)
       IN  CleanFrom(IF e = "" \/ e = "." THEN out
                     ELSE IF e = ".." THEN (IF out = <<>> THEN out ELSE Dir(out))
                     ELSE Append(out, e),
                     Tail(elems))

\* filepath.Join(dir..., name): the elements joined by separators, cleaned.
filepathJoin(dir, name) == CleanFrom(<<>>, dir \o name)

\* fsStore.targetPath(name, typ) for a name string.
targetPathOf(name, typ) ==
  IF flat THEN filepathJoin(<<Root>>, name)
  ELSE filepathJoin(<<Root, StringLower(typ)>>, name)

\* The last call on the store: op with typ and the name string, the target
\* path it used, and what it returned.
StoreCalled(op, typ, name, err) ==
  [NoCall EXCEPT !.op = op, !.k = typ, !.val = targetPathOf(name, typ),
                 !.err = err]

\* s.Add(ns, name) on the fsStore: ns.FileName() panics on a closed
\* Namespace; the file is created before the mount is tried.
PathAdd(h, name) ==
  LET ns == heap[h]
      src == FileName(ns)
      trgt == targetPathOf(name, ns.typ)
      err == IF OsStat(src) # "nil" THEN OsStat(src)
             ELSE IF OsStat(trgt) = "nil" THEN "ErrExists"
             ELSE IF OsCreateErr(trgt) # "nil" THEN OsCreateErr(trgt)
             ELSE MountBindErr(src)
      created == /\ OsStat(src) = "nil"
                 /\ OsStat(trgt) # "nil"
                 /\ OsCreateErr(trgt) = "nil"
  IN  /\ ~halted
      /\ Cardinality(DOMAIN fsFiles) < MaxEntries
      /\ IF ns.closed
         THEN Panics /\ ret' = StoreCalled("Add", ns.typ, name, "panic")
         ELSE /\ fsFiles' = IF ~created THEN fsFiles
                            ELSE IF err = "nil" THEN (trgt :> Resolve(src)) @@ fsFiles
                            ELSE (trgt :> RegularFile) @@ fsFiles
              /\ ret' = StoreCalled("Add", ns.typ, name, err)
              /\ UNCHANGED <<proc, nsCount, fsDirs, heap, held, got, dups,
                             data, reg, halted>>
      /\ UNCHANGED <<self, backend, flat, thr, mask>>

\* s.Delete(typ, name) on the fsStore.
PathDelete(typ, name) ==
  LET trgt == targetPathOf(name, typ)
      err == IF OsStat(trgt) # "nil" THEN "ErrNotExists" ELSE UnmountErr(trgt)
  IN  /\ ~halted
      /\ fsFiles' = IF err = "nil"
                    THEN [q \in DOMAIN fsFiles \ {trgt} |-> fsFiles[q]]
                    ELSE fsFiles
      /\ ret' = StoreCalled("Delete", typ, name, err)
      /\ UNCHANGED <<proc, nsCount, self, fsDirs, heap, held, got, dups,
                     backend, flat, data, reg, halted, thr, mask>>

\* s.Exists(typ, name) on the fsStore; q is what it returns.
PathExists(typ, name) ==
  /\ ~halted
  /\ ret' = [StoreCalled("Exists", typ, name, "nil")
               EXCEPT !.q = OsStat(targetPathOf(name, typ)) = "nil"]
  /\ UNCHANGED <<proc, nsCount, self, fsDirs, fsFiles, heap, held, got, dups,
                 backend, flat, data, reg, halted, thr, mask>>

\* s.Get(typ, name) on the fsStore.
PathGet(typ, name) ==
  LET trgt == targetPathOf(name, typ)
      r == IF OsStat(trgt) # "nil" THEN [err |-> "ErrNotExists", ns |-> NoNs]
           ELSE Open(trgt)
  IN  /\ ~halted
      /\ Room
      /\ Returns(r)
      /\ got' = IF r.err = "nil" THEN got \cup {Len(heap) + 1} ELSE got
      /\ ret' = [StoreCalled("Get", typ, name, r.err)
                   EXCEPT !.out = IF r.err = "nil" THEN Len(heap) + 1 ELSE 0]
      /\ UNCHANGED <<proc, nsCount, self, fsDirs, fsFiles, dups, backend, flat,
                     data, reg, halted, thr, mask>>

\* The store is on a filesystem whose "/" is a directory.
InitPath ==
  /\ proc = [pid \in Pids |-> NoProc]
  /\ nsCount = 0
  /\ self = [t \in Types |-> InitIno(t)]
  /\ backend = "fs"
  /\ flat \in BOOLEAN
  /\ fsDirs = NewFsStore(flat) \cup {<<>>}
  /\ fsFiles = [q \in {} |-> NoEnt]
  /\ heap = <<>>
  /\ held = {}
  /\ got = {}
  /\ dups = {}
  /\ data = NewMemStore
  /\ reg = [k \in {} |-> 0]
  /\ halted = FALSE
  /\ thr = [g \in Goroutines |-> Ready]
  /\ ret = NoCall
  /\ mask = NewMask

NextPath ==
  \/ \E t \in Kinds : OpenSelf(t)
  \/ \E h \in held : CallClose(h)
  \/ \E h \in held, name \in NameStrings : PathAdd(h, name)
  \/ \E t \in Kinds, name \in NameStrings : PathDelete(t, name)
  \/ \E t \in Kinds, name \in NameStrings : PathExists(t, name)
  \/ \E t \in Kinds, name \in NameStrings : PathGet(t, name)

SpecPath == InitPath /\ [][NextPath]_vars

(***************************************************************************)
(* Specifications of one configuration of the store.                       *)
(***************************************************************************)
\* The fs store in nested layout.
InitNested == Init /\ backend = "fs" /\ ~flat

SpecNested == InitNested /\ [][Next]_vars


(***************************************************************************)
(* Properties.                                                             *)
(***************************************************************************)
IsOpen(ns) == ~ns.closed /\ ns.file.open

\* The names registered under a type, by the history of the calls.
RegisteredNames(typ) == {n \in Names : <<typ, n>> \in DOMAIN reg}

\* The pointers the memStore keeps.
Stored == {data[k[1]][k[2]] : k \in {tn \in Types \X Names : tn[2] \in DOMAIN data[tn[1]]}}

\* What the callers can observe of the entry (typ, name).
Entry(typ, name) ==
  <<StoreExists(typ, name), StoreGet(typ, name).err,
    Identity(StoreGet(typ, name).ns)>>

\* The caller's Namespace h can be added under a name nothing was ever put
\* under: it is open, and for the fs store its file name still resolves and
\* can be bind-mounted.
Addable(h) ==
  /\ ~heap[h].closed
  /\ backend = "fs" => /\ OsStat(FileName(heap[h])) = "nil"
                       /\ MountBindErr(FileName(heap[h])) = "nil"

\* C1: memory store round trip. Whenever a caller adds an open Namespace h
\* under a name that is not registered for h's type, Add returns nil, and
\* Get of (h.Type(), name) right after it returns nil and an open Namespace
\* with the type, device and inode of h.
C1_MemRoundTrip ==
  [][\A h \in held, x \in Names :
       (/\ backend = "mem"
        /\ ~heap[h].closed
        /\ x \notin RegisteredNames(heap[h].typ)
        /\ Add(h, x))
       => /\ StoreAddErr(h, x) = "nil"
          /\ StoreGet(heap[h].typ, x)'.err = "nil"
          /\ IsOpen(StoreGet(heap[h].typ, x)'.ns)
          /\ Identity(StoreGet(heap[h].typ, x)'.ns) = Identity(heap[h])]_vars

\* C1 witness: the memory store holds an entry added from a namespace that
\* a process created, and Get returns an open Namespace of that identity.
C1_Witness ==
  /\ backend = "mem"
  /\ \E k \in DOMAIN reg :
       /\ reg[k].id.stat.Ino > 8
       /\ StoreGet(k[1], k[2]).err = "nil"
       /\ IsOpen(StoreGet(k[1], k[2]).ns)
       /\ Identity(StoreGet(k[1], k[2]).ns) = reg[k].id

\* C2: fs store round trip. Whenever Add(h, x) on the fs store returns nil,
\* Get of (h.Type(), x) right after it returns nil and a Namespace with the
\* type, device and inode h captured when it was opened, whatever the
\* process named in h's file name did since h was opened.
C2_FsRoundTrip ==
  [][\A h \in held, x \in Names :
       (/\ backend = "fs"
        /\ ~heap[h].closed
        /\ StoreAddErr(h, x) = "nil"
        /\ Add(h, x))
       => /\ StoreGet(heap[h].typ, x)'.err = "nil"
          /\ Identity(StoreGet(heap[h].typ, x)'.ns) = Identity(heap[h])]_vars

\* C3: Add on an occupied entry, in both stores. When (h2.Type(), x) is
\* registered, Add(h2, x) of an open Namespace h2 returns ErrExists, Get of
\* the entry returns the device and inode of the Namespace registered
\* first, and the Add changes neither what Get returns nor List(typ).
C3_AddOccupied ==
  /\ [](\A h2 \in held, x \in Names :
          (~heap[h2].closed /\ x \in RegisteredNames(heap[h2].typ))
          => /\ StoreAddErr(h2, x) = "ErrExists"
             /\ StoreGet(heap[h2].typ, x).err = "nil"
             /\ Identity(StoreGet(heap[h2].typ, x).ns) = reg[<<heap[h2].typ, x>>].id)
  /\ [][\A h2 \in held, x \in Names :
          (/\ ~heap[h2].closed
           /\ x \in RegisteredNames(heap[h2].typ)
           /\ Add(h2, x))
          => /\ Entry(heap[h2].typ, x)' = Entry(heap[h2].typ, x)
             /\ StoreList(heap[h2].typ)' = StoreList(heap[h2].typ)]_vars

\* C4: Delete, in both stores. Delete of a registered entry returns nil and
\* right after it Exists is false, Get and a second Delete return
\* ErrNotExists and Add of a Namespace of that type under the name returns
\* nil again; Delete of an entry that is not registered returns
\* ErrNotExists and changes nothing.
C4_Delete ==
  /\ [](\A t \in Kinds, x \in Names :
          StoreDeleteErr(t, x) =
            IF x \in RegisteredNames(t) THEN "nil" ELSE "ErrNotExists")
  /\ [][\A t \in Kinds, x \in Names :
          Delete(t, x)
          => IF x \in RegisteredNames(t)
             THEN /\ ~StoreExists(t, x)'
                  /\ StoreGet(t, x)'.err = "ErrNotExists"
                  /\ StoreDeleteErr(t, x)' = "ErrNotExists"
                  /\ \A h \in held :
                       (heap[h].typ = t /\ Addable(h)') => StoreAddErr(h, x)' = "nil"
             ELSE UNCHANGED vars]_vars

\* C5: Get never hands out the store's own Namespace. A Get that returns
\* nil returns an open Namespace that no caller held and that is not one
\* the store keeps; the callers never hold a Namespace the store keeps; and
\* when a caller closes a Namespace, every entry Get could return before
\* the Close still exists and Get still returns the same open Namespace.
C5_GetSeparate ==
  /\ [](held \cap Stored = {})
  /\ [][/\ \A t \in Kinds, x \in Names :
            (StoreGet(t, x).err = "nil" /\ Get(t, x))
            => /\ GetPointer(t, x) \in held' \ held
               /\ GetPointer(t, x) \notin Stored'
               /\ IsOpen(heap'[GetPointer(t, x)])
               /\ Entry(t, x)' = Entry(t, x)
        /\ \A h \in held :
            CallClose(h)
            => \A t \in Kinds, x \in Names :
                 StoreGet(t, x).err = "nil"
                 => /\ StoreExists(t, x)'
                    /\ StoreGet(t, x)'.err = "nil"
                    /\ IsOpen(StoreGet(t, x)'.ns)
                    /\ Entry(t, x)' = Entry(t, x)]_vars

\* C5 witness: a caller closed a Namespace it got from Get, in either
\* store, and Get of a registered entry still returns an open Namespace.
C5_Witness ==
  /\ \E h \in got : heap[h].closed
  /\ \E k \in DOMAIN reg :
       StoreGet(k[1], k[2]).err = "nil" /\ IsOpen(StoreGet(k[1], k[2]).ns)

\* C6: Add never takes the caller's Namespace. Add(h, x), whatever it
\* returns, leaves h in the caller's hands as it was (open, same type, file
\* and stat); and when the caller closes an h it had added, the entry still
\* exists and Get returns what it returned before the Close.
C6_AddKeepsHandle ==
  [][/\ \A h \in held, x \in Names :
          (~heap[h].closed /\ Add(h, x))
          => /\ ~halted'
             /\ h \in held'
             /\ heap'[h] = heap[h]
             /\ IsOpen(heap'[h])
     /\ \A h \in held :
          CallClose(h)
          => \A k \in DOMAIN reg :
               (reg[k].h = h /\ StoreGet(k[1], k[2]).err = "nil")
               => /\ StoreExists(k[1], k[2])'
                  /\ StoreGet(k[1], k[2])'.err = "nil"
                  /\ IsOpen(StoreGet(k[1], k[2])'.ns)
                  /\ Entry(k[1], k[2])' = Entry(k[1], k[2])]_vars

\* C6 witness: the caller closed the Namespace it had added, in either
\* store, and Get of the entry returns an open Namespace.
C6_Witness ==
  \E k \in DOMAIN reg :
    /\ heap[reg[k].h].closed
    /\ StoreGet(k[1], k[2]).err = "nil"
    /\ IsOpen(StoreGet(k[1], k[2]).ns)

\* C7: one entry per (type, name), names independent across types, in the
\* memory store and the fs store of both layouts. List(t) names no entry
\* twice; for types k1 # k2, Add of an addable k2 Namespace under n returns
\* nil when (k2, n) is not registered, whether or not (k1, n) is; an Add
\* that registers (k2, n) changes nothing Exists and Get return for
\* (k1, n); and a Delete of (k1, n) changes nothing they return for (k2, n).
C7_KindsIndependent ==
  /\ [](\A t \in Kinds : \A i, j \in 1..Len(StoreList(t)) :
          StoreList(t)[i] = StoreList(t)[j] => i = j)
  /\ [](\A h \in held, n \in Names :
          (/\ Addable(h)
           /\ n \notin RegisteredNames(heap[h].typ)
           /\ \E k1 \in Kinds \ {heap[h].typ} : n \in RegisteredNames(k1))
          => StoreAddErr(h, n) = "nil")
  /\ [][\A k1, k2 \in Kinds, n \in Names :
          k1 # k2
          => /\ \A h \in held :
                  (heap[h].typ = k2 /\ StoreAddErr(h, n) = "nil" /\ Add(h, n))
                  => Entry(k1, n)' = Entry(k1, n)
             /\ Delete(k1, n) => Entry(k2, n)' = Entry(k2, n)]_vars

\* C8: a registered entry keeps its namespace alive. As long as an entry is
\* registered (Add returned nil, no Delete of it returned nil since), the
\* namespace of the Namespace that was added is alive and Get of the entry
\* returns nil, whatever became of the processes and of the callers'
\* Namespaces.
C8_KeepsAlive ==
  \A k \in DOMAIN reg :
    /\ NsAlive(reg[k].id.stat.Ino)
    /\ StoreGet(k[1], k[2]).err = "nil"

\* C9: memStore.Get against a concurrent Delete. Get never reaches Dup with
\* a Namespace that Delete has closed (the panic "acting on a closed
\* namespace") or whose file Delete has closed, and it returns either
\* ErrNotExists or nil with an open Namespace.
C9_GetVersusDelete ==
  \A g \in Goroutines :
    thr[g].op = "Get"
    => /\ thr[g].pc = "get_dup" => ~heap[thr[g].ns].closed
       /\ thr[g].pc = "get_dupsys" => heap[thr[g].ns].file.open
       /\ thr[g].pc = "done"
          => /\ thr[g].err \in {"nil", "ErrNotExists"}
             /\ thr[g].err = "nil" => IsOpen(heap[thr[g].out])

\* C10: two concurrent memStore.Add of Namespaces of the same type under
\* the same name, free when they start: exactly one returns nil, the other
\* returns ErrExists, and the store keeps the Dup the successful call made.
C10_OneAddWins ==
  \A g1, g2 \in Goroutines :
    (/\ g1 # g2
     /\ thr[g1].op = "Add" /\ thr[g2].op = "Add"
     /\ thr[g1].pc = "done" /\ thr[g2].pc = "done"
     /\ thr[g1].typ = thr[g2].typ /\ thr[g1].name = thr[g2].name
     /\ thr[g1].name \notin RegisteredNames(thr[g1].typ))
    => \E w \in {g1, g2} :
         /\ thr[w].err = "nil"
         /\ \A o \in {g1, g2} \ {w} : thr[o].err = "ErrExists"
         /\ thr[w].name \in DOMAIN data[thr[w].typ]
         /\ data[thr[w].typ][thr[w].name] = thr[w].newNs

\* The set of the elements of a sequence.
Elems(l) == {l[i] : i \in 1..Len(l)}

\* C11: List of the memory store. List(t) is in ascending order (so it names
\* no entry twice), its elements are exactly the names registered under t,
\* and it is the empty sequence when none is registered.
C11_MemListSorted ==
  backend = "mem"
  => \A t \in Kinds :
       /\ \A i, j \in 1..Len(StoreList(t)) :
            i < j => NameIndex(StoreList(t)[i]) < NameIndex(StoreList(t)[j])
       /\ Elems(StoreList(t)) = RegisteredNames(t)
       /\ RegisteredNames(t) = {} => StoreList(t) = <<>>

\* C11 witness: the memory store lists two names under one type and fewer
\* under another.
C11_Witness ==
  /\ backend = "mem"
  /\ \E t1, t2 \in Kinds :
       /\ Cardinality(RegisteredNames(t1)) = 2
       /\ Len(StoreList(t1)) = 2
       /\ Len(StoreList(t2)) < 2

\* C12: List of the fs store, nested and flat layout. List(t) names exactly
\* the names registered under t, none of another type and none missing, and
\* it is the empty sequence when the directory it reads does not exist.
C12_FsList ==
  backend = "fs"
  => \A t \in Kinds :
       /\ Elems(StoreList(t)) = RegisteredNames(t)
       /\ Len(StoreList(t)) = Cardinality(RegisteredNames(t))
       /\ Join2(Root, StringLower(t)) \notin fsDirs => StoreList(t) = <<>>

\* C13: Dup. Dup of an open Namespace h returns nil and a new open Namespace
\* d with the type, device and inode of h, and leaves h as it was; when a
\* caller closes one of h and d while the other is open, the other stays
\* open, unchanged, and can be duplicated again; and while h or d is open
\* the namespace is alive, whatever became of the processes.
C13_DupIndependent ==
  /\ [](\A p \in dups :
         /\ \A o \in {p[1], p[2]} :
              IsOpen(heap[o])
              => /\ NsAlive(heap[o].stat.Ino)
                 /\ Dup(heap[o]).err = "nil"
         /\ (IsOpen(heap[p[1]]) /\ IsOpen(heap[p[2]]))
            => Identity(heap[p[1]]) = Identity(heap[p[2]]))
  /\ [][/\ \A h \in held :
            (IsOpen(heap[h]) /\ CallDup(h))
            => LET d == Len(heap) + 1
               IN  /\ d \in held' \ held
                   /\ IsOpen(heap'[d])
                   /\ Identity(heap'[d]) = Identity(heap[h])
                   /\ heap'[h] = heap[h]
        /\ \A p \in dups : \A x \in {p[1], p[2]} :
            CallClose(x)
            => \A o \in {p[1], p[2]} \ {x} :
                 IsOpen(heap[o])
                 => /\ heap'[o] = heap[o]
                    /\ Dup(heap'[o]).err = "nil"
                    /\ NsAlive(heap[o].stat.Ino)']_vars

\* C13 witness: a caller duplicated a Namespace of a namespace that a
\* process created and closed the original; the process is gone, and the
\* duplicate is the only open file of the namespace.
C13_Witness ==
  \E p \in dups :
    /\ heap[p[1]].closed
    /\ IsOpen(heap[p[2]])
    /\ heap[p[2]].stat.Ino > 8
    /\ \A pid \in Pids : ~proc[pid].alive
    /\ \A o \in 1..Len(heap) : heap[o].file.open => o = p[2]

\* C14: Close makes a Namespace terminal. Close of an open Namespace closes
\* its file and sets closed; and on a closed Namespace every method
\* (Type, Fd, Ino, Dev, FileName, Set, SetAndClose, Dup, Parent,
\* OwningUserNS, OwnerUID, Close) panics, whatever the kernel would answer,
\* and returns neither a value nor an error.
C14_ClosedHalts ==
  /\ [][\A h \in held :
          (~heap[h].closed /\ CallClose(h))
          => heap'[h].closed /\ ~heap'[h].file.open]_vars
  /\ [](\A h \in held :
          heap[h].closed
          => /\ Type(heap[h]).err = "panic"
             /\ Fd(heap[h]).err = "panic"
             /\ Ino(heap[h]).err = "panic"
             /\ Dev(heap[h]).err = "panic"
             /\ GetFileName(heap[h]).err = "panic"
             /\ Dup(heap[h]).err = "panic"
             /\ Close(heap[h]).err = "panic"
             /\ \A k \in {"nil", "EPERM", "EINVAL"} :
                  /\ NamespaceSet(heap[h], k).err = "panic"
                  /\ SetAndClose(heap[h], k).err = "panic"
             /\ \A k \in Answers :
                  /\ Parent(heap[h], k).err = "panic"
                  /\ OwningUserNS(heap[h], k).err = "panic"
                  /\ OwnerUID(heap[h], k).err = "panic")

\* The Types that have a hierarchy.
Hierarchical == {"PID", "USER"}

\* C15: Parent on an open Namespace whose type is neither PID nor USER
\* returns ErrNonHierarchicalNS and no Namespace without asking the kernel,
\* whatever the kernel would answer, and the call allocates nothing.
C15_ParentNonHierarchical ==
  /\ [](\A h \in held, k \in Answers :
          (~heap[h].closed /\ heap[h].typ \notin Hierarchical)
          => /\ Parent(heap[h], k).err = "ErrNonHierarchicalNS"
             /\ Parent(heap[h], k).ns = NoNs
             /\ ~Parent(heap[h], k).q)
  /\ []((ret.op = "Parent" /\ ret.err # "panic"
           /\ heap[ret.h].typ \notin Hierarchical)
         => /\ ret.err = "ErrNonHierarchicalNS"
            /\ ret.out = 0
            /\ ~ret.q)
  /\ [][\A h \in held, k \in Answers :
          (/\ ~heap[h].closed
           /\ heap[h].typ \notin Hierarchical
           /\ ret'.op = "Parent" /\ ret'.h = h /\ ret'.k = k
           /\ CallParent(h, k))
          => UNCHANGED <<heap, held, self, halted>>]_vars

\* C15 witness: a caller called Parent on an open Namespace of the net
\* namespace of a process and got ErrNonHierarchicalNS.
C15_Witness ==
  /\ ret.op = "Parent"
  /\ ret.err = "ErrNonHierarchicalNS"
  /\ IsOpen(heap[ret.h])
  /\ heap[ret.h].typ = "NET"
  /\ heap[ret.h].stat.Ino > 8

\* C16: OwningUserNS on an open Namespace whose type is neither PID nor USER
\* (MNT, NET, IPC, UTS, CGROUP) returns ErrNonHierarchicalNS and no
\* Namespace, whatever the kernel would answer.
C16_OwningUserNSNonHierarchical ==
  /\ \A h \in held, k \in Answers :
       (~heap[h].closed /\ heap[h].typ \notin Hierarchical)
       => /\ OwningUserNS(heap[h], k).err = "ErrNonHierarchicalNS"
          /\ OwningUserNS(heap[h], k).ns = NoNs
  /\ (ret.op = "OwningUserNS" /\ ret.err # "panic"
       /\ heap[ret.h].typ \notin Hierarchical)
     => ret.err = "ErrNonHierarchicalNS" /\ ret.out = 0

\* What a hierarchy call returned (r) agrees with what the kernel did with
\* the ioctl (a): ENOTTY gives ErrKernelNoSupport, EPERM ErrNotPermitted,
\* another errno that errno, each with no Namespace; success gives an open
\* Namespace of type typ on the namespace the kernel returned.
Mapped(a, r, typ) ==
  /\ a.errno = "ENOTTY" => r.err = "ErrKernelNoSupport"
  /\ a.errno = "EPERM" => r.err = "ErrNotPermitted"
  /\ a.errno \notin {"nil", "ENOTTY", "EPERM"} => r.err = a.errno
  /\ a.errno # "nil" => r.ns = NoNs
  /\ a.errno = "nil" => /\ r.err = "nil"
                        /\ IsOpen(r.ns)
                        /\ r.ns.typ = typ
                        /\ r.ns.stat.Ino = a.out

\* C17: the results of Parent on an open PID or USER Namespace and of
\* OwningUserNS on an open Namespace. ENOTTY from the kernel gives
\* ErrKernelNoSupport, EPERM (the answer for the parent of an initial pid
\* or user namespace) gives ErrNotPermitted, any other errno is returned as
\* it is, and success gives a new open Namespace, of type USER from
\* OwningUserNS and of the receiver's type from Parent; a call that fails
\* returns no Namespace, and every call leaves the receiver as it was.
C17_HierarchyErrors ==
  /\ [](\A h \in held, k \in Answers :
          ~heap[h].closed
          => /\ Mapped(Ioctl(heap[h].file.ino, "NS_GET_USERNS", k),
                       OwningUserNS(heap[h], k), "USER")
             /\ heap[h].typ \in Hierarchical
                => /\ Mapped(Ioctl(heap[h].file.ino, "NS_GET_PARENT", k),
                             Parent(heap[h], k), heap[h].typ)
                   /\ (k = "ok" /\ NsSeq(heap[h].file.ino) = 0)
                      => Parent(heap[h], k).err = "ErrNotPermitted")
  /\ [][\A h \in held, k \in Answers :
          (/\ ~heap[h].closed
           /\ ret'.op \in {"OwningUserNS", "Parent"} /\ ret'.h = h /\ ret'.k = k
           /\ \/ CallOwningUserNS(h, k)
              \/ heap[h].typ \in Hierarchical /\ CallParent(h, k))
          => /\ heap'[h] = heap[h]
             /\ ~halted'
             /\ IF ret'.err = "nil"
                THEN /\ ret'.out \in held' \ held
                     /\ IsOpen(heap'[ret'.out])
                ELSE ret'.out = 0 /\ UNCHANGED <<heap, held>>]_vars

\* C17 witness: Parent on an open Namespace of the pid namespace of a
\* process returned an open Namespace of the caller's pid namespace.
C17_Witness ==
  /\ ret.op = "Parent"
  /\ ret.err = "nil"
  /\ IsOpen(heap[ret.h])
  /\ heap[ret.h].stat.Ino = NewIno(1, "PID")
  /\ IsOpen(heap[ret.out])
  /\ heap[ret.out].typ = "PID"
  /\ heap[ret.out].stat.Ino = InitIno("PID")

\* C18: OwnerUID. On an open Namespace whose type is not USER it returns
\* ErrNonUserNS without asking the kernel; on an open USER Namespace it
\* asks the kernel and returns the uid that created the namespace, or the
\* errno of the kernel as it is. Stated of the result of the method and of
\* the last call of the caller (its receiver may have been closed since).
C18_OwnerUID ==
  /\ \A h \in held, k \in Answers :
       ~heap[h].closed
       => IF heap[h].typ # "USER"
          THEN /\ OwnerUID(heap[h], k).err = "ErrNonUserNS"
               /\ ~OwnerUID(heap[h], k).q
          ELSE /\ OwnerUID(heap[h], k).q
               /\ k = "ok" => /\ OwnerUID(heap[h], k).err = "nil"
                              /\ OwnerUID(heap[h], k).val
                                   = CreatorOf(heap[h].stat.Ino)
               /\ k # "ok" => OwnerUID(heap[h], k).err = k
  /\ (ret.op = "OwnerUID" /\ ret.err # "panic")
     => IF heap[ret.h].typ # "USER"
        THEN ret.err = "ErrNonUserNS" /\ ~ret.q
        ELSE /\ ret.q
             /\ ret.k = "ok" => ret.err = "nil"
             /\ (ret.k = "ok" /\ IsOpen(heap[ret.h]))
                => ret.val = CreatorOf(heap[ret.h].stat.Ino)
             /\ ret.k # "ok" => ret.err = ret.k

\* C18 witness: OwnerUID on an open Namespace of the user namespace of a
\* process returned the uid of the caller, who created it.
C18_Witness ==
  /\ ret.op = "OwnerUID"
  /\ ret.err = "nil"
  /\ heap[ret.h].typ = "USER"
  /\ heap[ret.h].stat.Ino = NewIno(1, "USER")
  /\ ret.val = CreatorOf(NewIno(1, "USER"))
  /\ ret.val # CreatorOf(InitIno("USER"))

\* C19: Open. Open(path) returns ErrFileNotNamspace exactly when the path
\* can be opened and the kernel answers the type query with "not a
\* namespace" (ENOTTY); when the open fails, or the type query fails in
\* another way, or the stat fails, it returns that errno as it is and no
\* Namespace; otherwise it returns nil and an open Namespace with the type
\* the kernel reported and the device and inode of the stat.
C19_OpenErrors ==
  [][\A path \in NsPaths, f \in Faults :
       CallOpen(path, f)
       => LET node == Resolve(path)
              opens == f.open = "nil" /\ node # NoEnt
              isNs == node.t = "nsfs"
          IN  /\ ret'.err = "ErrFileNotNamspace"
                 <=> (opens /\ f.ioctl = "nil" /\ ~isNs)
              /\ ~opens
                 => ret'.err = (IF f.open # "nil" THEN f.open ELSE "ENOENT")
              /\ (opens /\ f.ioctl # "nil") => ret'.err = f.ioctl
              /\ (opens /\ f.ioctl = "nil" /\ isNs /\ f.stat # "nil")
                 => ret'.err = f.stat
              /\ (opens /\ f.ioctl = "nil" /\ isNs /\ f.stat = "nil")
                 => /\ ret'.err = "nil"
                    /\ ret'.out \in held' \ held
                    /\ IsOpen(heap'[ret'.out])
                    /\ heap'[ret'.out].typ = NsTypeOfIno(node.ino)
                    /\ heap'[ret'.out].stat = stat(node.ino)
              /\ ret'.err # "nil" => ret'.out = 0 /\ UNCHANGED <<heap, held>>]_vars

\* C20: Mask. NewMask().Set(k) has k and no other Type; SetAll() has every
\* Type; SetAll().Remove(k) does not have k and has every other Type.
\* Stated of the operators, for all of the seven Types, and of the mask a
\* caller holds after Set on the empty mask, after SetAll, and after Remove
\* on the mask of all Types.
C20_MaskSetHasRemove ==
  /\ \A k, k2 \in Types :
       /\ Has(Set(NewMask, k), k2) <=> k2 = k
       /\ Has(SetAll, k)
       /\ Has(Remove(SetAll, k), k2) <=> k2 # k
  /\ (ret.op = "Set" /\ ret.val = NewMask)
     => \A k2 \in Types : Has(mask, k2) <=> k2 = ret.k
  /\ ret.op = "SetAll" => \A k2 \in Types : Has(mask, k2)
  /\ (ret.op = "Remove" /\ ret.val = SetAll)
     => \A k2 \in Types : Has(mask, k2) <=> k2 # ret.k
  /\ ret.op = "Has" => (ret.out = 1 <=> Has(mask, ret.k))

\* C20 witness: the caller removed USER from the mask of all Types, asked
\* or not, and holds a mask with the six other Types.
C20_Witness ==
  /\ ret.op = "Remove"
  /\ ret.val = SetAll
  /\ ret.k = "USER"
  /\ ~Has(mask, "USER")
  /\ \A k2 \in Types \ {"USER"} : Has(mask, k2)
  /\ mask # SetAll /\ mask # NewMask

\* The Types a mask has.
KindsOf(m) == {k \in Types : Has(m, k)}

RECURSIVE OrOfKinds(_)
\* The bitwise OR of the values of a set of Types.
OrOfKinds(S) ==
  IF S = {} THEN 0
  ELSE LET k == CHOOSE x \in S : TRUE
       IN  BitOr(TypeValue(k), OrOfKinds(S \ {k}))

\* C21: Mask. Composition is commutative and idempotent, for every mask m
\* a caller holds and all Types a, b: after m.Set(a) the caller holds
\* m.Set(a), m.Set(a).Set(a) is the same mask, m.Set(a).Set(b) equals
\* m.Set(b).Set(a), and the mask has the Types of m and a; likewise
\* m.Remove(a).Remove(a) = m.Remove(a), m.Remove(a).Remove(b) equals
\* m.Remove(b).Remove(a), and the mask has the Types of m but a. Uintptr() of
\* every mask is the bitwise OR of the values of exactly the Types it has.
C21_MaskComposition ==
  /\ ret.op = "Set"
     => /\ mask = Set(ret.val, ret.k)
        /\ Set(mask, ret.k) = mask
        /\ \A b \in Types : Set(mask, b) = Set(Set(ret.val, b), ret.k)
        /\ KindsOf(mask) = KindsOf(ret.val) \cup {ret.k}
  /\ ret.op = "Remove"
     => /\ mask = Remove(ret.val, ret.k)
        /\ Remove(mask, ret.k) = mask
        /\ \A b \in Types : Remove(mask, b) = Remove(Remove(ret.val, b), ret.k)
        /\ KindsOf(mask) = KindsOf(ret.val) \ {ret.k}
  /\ Uintptr(mask) = OrOfKinds(KindsOf(mask))
  /\ ret.op = "Uintptr" => ret.out = OrOfKinds(KindsOf(mask))

\* C21 witness: the caller built NewMask().Set(PID).Set(USER), or the same
\* in the other order, and Uintptr() returned PID | USER.
C21_Witness ==
  /\ ret.op = "Uintptr"
  /\ KindsOf(mask) = {"PID", "USER"}
  /\ mask = Set(Set(NewMask, "PID"), "USER")
  /\ mask = Set(Set(NewMask, "USER"), "PID")
  /\ ret.out = PID + USER

\* C22: fsStore.Delete. When the target path is absent Delete returns
\* ErrNotExists and changes nothing. Otherwise it unmounts the target and
\* removes the file; when the unmount fails it returns that error, the file
\* stays, and the entry remains registered: Exists is true and Get still
\* returns a Namespace.
C22_FsDelete ==
  /\ [](\A t \in Kinds, x \in Names :
          backend = "fs"
          => LET trgt == targetPath(x, t)
             IN  /\ OsStat(trgt) # "nil" => StoreDeleteErr(t, x) = "ErrNotExists"
                 /\ (OsStat(trgt) = "nil" /\ UnmountErr(trgt) # "nil")
                    => /\ StoreDeleteErr(t, x) = UnmountErr(trgt)
                       /\ StoreExists(t, x)
                       /\ StoreGet(t, x).err = "nil"
                 /\ (OsStat(trgt) = "nil" /\ UnmountErr(trgt) = "nil")
                    => StoreDeleteErr(t, x) = "nil")
  /\ [][\A t \in Kinds, x \in Names :
          (backend = "fs" /\ Delete(t, x))
          => IF StoreDeleteErr(t, x) = "nil"
             THEN /\ targetPath(x, t) \notin DOMAIN fsFiles'
                  /\ ~StoreExists(t, x)'
             ELSE UNCHANGED vars]_vars

\* The orders in which the calls of two goroutines that each call Add and
\* then Delete can run one after the other: the first occurrence of a
\* goroutine is its Add, the second its Delete.
SequentialOrders ==
  {<<"g1", "g1", "g2", "g2">>, <<"g1", "g2", "g1", "g2">>,
   <<"g1", "g2", "g2", "g1">>, <<"g2", "g1", "g1", "g2">>,
   <<"g2", "g1", "g2", "g1">>, <<"g2", "g2", "g1", "g1">>}

RECURSIVE SequentialResults(_, _, _, _, _)
\* What the calls on one free (typ, name) return when they run one after the
\* other in the given order, by the contract of store.Store: Add returns
\* ErrExists on an occupied entry and nil on a free one, which it occupies;
\* Delete returns nil on an occupied entry, which it frees, and ErrNotExists
\* on a free one.
SequentialResults(order, i, occupied, added, res) ==
  IF i > Len(order) THEN res
  ELSE LET g == order[i]
       IN  IF g \notin added
           THEN SequentialResults(order, i + 1, TRUE, added \cup {g},
                  [res EXCEPT ![g].add = IF occupied THEN "ErrExists" ELSE "nil"])
           ELSE SequentialResults(order, i + 1, FALSE, added,
                  [res EXCEPT ![g].del = IF occupied THEN "nil" ELSE "ErrNotExists"])

\* C23: fsStore.Add and fsStore.Delete are check-then-act with no mutual
\* exclusion. The existence check is the only step at which Add returns
\* ErrExists and Delete returns ErrNotExists, and it looks at the target as it
\* is at that moment; a call that has passed its check goes on to create and
\* mount, or to unmount and remove, whatever the other goroutine has done to
\* the target since, and never returns ErrExists or ErrNotExists any more.
\* (That two Adds of one free entry can both pass the check and both return
\* nil, and that the results of concurrent calls need not be those of any
\* sequential order, is what the reachable state C23_Witness shows.)
C23_FsCheckThenAct ==
  [][\A g \in Goroutines :
       /\ (thr[g].pc # "done" /\ thr'[g].pc = "done" /\ thr'[g].err = "ErrExists")
          => /\ thr[g].pc = "fsadd_stattrgt"
             /\ OsStat(Target(g)) = "nil"
       /\ (thr[g].pc # "done" /\ thr'[g].pc = "done" /\ thr'[g].err = "ErrNotExists")
          => /\ thr[g].pc = "fsdel_exists"
             /\ OsStat(Target(g)) # "nil"
       /\ (thr[g].pc = "fsadd_stattrgt" /\ thr'[g].pc # thr[g].pc)
          => (thr'[g].pc = "fsadd_create" <=> OsStat(Target(g)) # "nil")
       /\ (thr[g].pc = "fsdel_exists" /\ thr'[g].pc # thr[g].pc)
          => (thr'[g].pc = "fsdel_unmount" <=> OsStat(Target(g)) = "nil")
       /\ (thr[g].pc \in {"fsadd_create", "fsadd_mount", "fsdel_unmount",
                          "fsdel_remove"} /\ thr'[g].pc = "done")
          => thr'[g].err \notin {"ErrExists", "ErrNotExists"}]_vars

\* C23 witness: two goroutines have added Namespaces of one type under one
\* name that nothing was registered under, and both Adds returned nil; both
\* then deleted the entry, one Delete returned nil and the other ENOENT; no
\* order of the four calls one after the other gives these results.
C23_Witness ==
  /\ backend = "fs"
  /\ \A g \in Goroutines :
       /\ thr[g].op = "Delete" /\ thr[g].pc = "done" /\ thr[g].past = "nil"
       /\ thr[g].typ = thr["g1"].typ /\ thr[g].name = thr["g1"].name
  /\ thr["g1"].name \notin RegisteredNames(thr["g1"].typ)
  /\ thr["g1"].err = "nil"
  /\ thr["g2"].err = "ENOENT"
  /\ [g \in Goroutines |-> [add |-> thr[g].past, del |-> thr[g].err]]
       \notin {SequentialResults(o, 1, FALSE, {},
                 [g \in Goroutines |-> [add |-> "", del |-> ""]]) :
               o \in SequentialOrders}

\* C24: a failed fsStore.Add leaves the store unchanged. Whenever Add(h, x)
\* of an open Namespace returns an error, Exists, Get and List give for
\* every type and name what they gave before the call, and every Add returns
\* what it would have returned before the call.
C24_FailedAddChangesNothing ==
  [][\A h \in held, x \in Names :
       (/\ backend = "fs"
        /\ ~heap[h].closed
        /\ StoreAddErr(h, x) # "nil"
        /\ Add(h, x))
       => \A t \in Kinds, n \in Names :
            /\ Entry(t, n)' = Entry(t, n)
            /\ StoreList(t)' = StoreList(t)
            /\ \A h2 \in held : StoreAddErr(h2, n)' = StoreAddErr(h2, n)]_vars

\* The Namespaces the store made (by Dup in Add) that are still open: those
\* that were never handed to a caller.
StoreOpen == {p \in 1..Len(heap) : p \notin held /\ heap[p].file.open}

\* C25: the memStore holds exactly one open reference per entry. After any
\* sequence of Add, Get and Delete the open Namespaces the store made and
\* did not hand to a caller are exactly the ones it keeps under its entries,
\* one for each entry: an Add that returns ErrExists leaves no open duplicate
\* behind, and Delete closes the Namespace that was stored.
C25_OneReferencePerEntry ==
  backend = "mem"
  => /\ StoreOpen = Stored
     /\ Cardinality(StoreOpen) =
          Cardinality({tn \in Types \X Names : tn[2] \in DOMAIN data[tn[1]]})

\* C26: membership is reported consistently. In the memStore and in the
\* fsStore, nested and flat, after any sequence of Add, Get and Delete by one
\* caller and for every type and name: Exists(typ, name) is true if and only
\* if name is in List(typ), and if and only if Get(typ, name) returns a
\* Namespace and no error.
C26_MembershipConsistent ==
  \A t \in Kinds, n \in Names :
    /\ StoreExists(t, n) <=> n \in Elems(StoreList(t))
    /\ StoreExists(t, n) <=> StoreGet(t, n).err = "nil"

\* No Add of an open Namespace the caller holds is rejected because the
\* directory of its type is missing.
NoAddLacksDir ==
  \A h \in held, n \in Names :
    ~heap[h].closed
    => Dir(targetPath(n, heap[h].typ)) \in fsDirs /\ StoreAddErr(h, n) # "ENOENT"

\* C27 as claimed: after NewFsStore returned a store with nested layout,
\* for every FsType and whatever root held before, a directory exists for
\* each of the seven Types, and no Add is rejected for a missing directory;
\* on an empty root the seven directories were made by NewFsStore, and with
\* flat layout none was made.
C27_TypeDirsAlways ==
  Made
  => /\ ~flat => (TypeDirs \subseteq fsDirs /\ NoAddLacksDir)
     /\ (~flat /\ ret.q) => ret.out = 7
     /\ flat => ret.out = 0

\* C27 amended: after NewFsStore returned a store with nested layout on a
\* root it found empty (FsTmpfs always does: it looks at the fresh tmpfs), a
\* directory exists for each of the seven Types, made by NewFsStore, and no
\* Add is rejected for a missing directory. On a root that is not empty
\* NewFsStore makes no directory and leaves what is there; with flat layout
\* it makes none.
C27_TypeDirsOnEmptyRoot ==
  /\ [](Made
        => /\ (~flat /\ ret.q)
              => (ret.out = 7 /\ TypeDirs \subseteq fsDirs /\ NoAddLacksDir)
           /\ (flat \/ ~ret.q) => ret.out = 0
           /\ ret.k = "FsTmpfs" => ret.q)
  /\ [][\A ft \in FsTypes :
          (ret'.op = "NewFsStore" /\ ret'.k = ft /\ CallNewFsStore(ft))
          => /\ ret'.err = "nil"
                => (ret'.q <=> (\/ ft = "FsTmpfs"
                                \/ fsDirs = {<<Root>>} /\ DOMAIN fsFiles = {}))
             /\ (ret'.err = "nil" /\ ~ret'.q)
                => UNCHANGED <<fsDirs, fsFiles>>
             /\ (ret'.err = "nil" /\ flat /\ ft # "FsTmpfs")
                => UNCHANGED <<fsDirs, fsFiles>>]_vars

\* C27 witness: NewFsStore with nested layout found root empty and made the
\* seven directories, and the caller's Add of a NET Namespace under a fresh
\* name succeeded.
C27_Witness ==
  /\ Made /\ ~flat /\ ret.q /\ ret.out = 7
  /\ ret.k = "FsBind"
  /\ TypeDirs \subseteq fsDirs
  /\ \E n \in Names : <<"NET", n>> \in DOMAIN reg /\ StoreGet("NET", n).err = "nil"

\* C28: SetAndClose on an open Namespace. When setns returns nil the
\* Namespace is closed afterwards (terminal: its descriptor is released),
\* the caller is in the namespace (its children, for a pid namespace), and
\* SetAndClose returns what Close returned; when setns fails SetAndClose
\* returns that error, the caller stays where it was, and the Namespace is
\* as before, open and usable.
C28_SetAndClose ==
  [][\A h \in held, k \in {"ok", "EPERM"} :
       (/\ ret'.op = "SetAndClose" /\ ret'.h = h /\ ret'.k = k
        /\ ~heap[h].closed
        /\ CallSetAndClose(h, k))
       => LET e == Setns(heap[h].file.ino, k)
          IN  IF e = "nil"
              THEN /\ heap'[h].closed /\ ~heap'[h].file.open
                   /\ ret'.err = Close(heap[h]).err
                   /\ heap[h].typ # "PID" => self'[heap[h].typ] = heap[h].file.ino
                   /\ Fd(heap'[h]).err = "panic"
              ELSE /\ ret'.err = e
                   /\ e \in {"EPERM", "EINVAL"}
                   /\ heap'[h] = heap[h] /\ IsOpen(heap'[h])
                   /\ Fd(heap'[h]).err = "nil"
                   /\ self' = self]_vars

\* C28 witness: the caller has entered the net namespace of a process with
\* SetAndClose, which closed that Namespace, and its last SetAndClose, on
\* another Namespace, failed with EPERM and left it open.
C28_Witness ==
  /\ ret.op = "SetAndClose" /\ ret.err = "EPERM"
  /\ IsOpen(heap[ret.h])
  /\ self["NET"] # InitIno("NET")
  /\ \E h \in held : heap[h].closed /\ heap[h].typ = "NET"

\* The descriptors the last Open obtained with os.Open and did not hand to
\* the caller in a Namespace: Open closes no file on any of its paths.
Unreturned == IF ret.op = "Open" /\ ret.q /\ ret.out = 0 THEN 1 ELSE 0

\* C29: a construction that fails leaves no descriptor behind: after an
\* Open that returned an error, every descriptor it obtained is closed, so
\* as many descriptors are open as before the call.
C29_FailedConstructionLeaksNothing ==
  (ret.op = "Open" /\ ret.err # "nil") => Unreturned = 0

\* The directory the entries of typ are kept in.
Slot(typ) == IF flat THEN <<Root>> ELSE <<Root, StringLower(typ)>>

\* C30: whatever the name string, the target path of a call on the fsStore
\* is a direct child of <root>/<kind> (of <root> in flat layout), and so is
\* every file the calls have created.
C30_TargetConfined ==
  /\ ret.op \in {"Add", "Get", "Exists", "Delete"}
       => Len(ret.val) > 1 /\ Dir(ret.val) = Slot(ret.k)
  /\ \A p \in DOMAIN fsFiles : \E t \in Types : Dir(p) = Slot(t)

====
